---- MODULE Spec2Model ----
(***************************************************************************)
(* MarketDaily: the news ingestion orchestrator (NewsService.updateNews)    *)
(* and the digest distribution driver (EmailService.sendDailyReport),       *)
(* modelled as state machines over the SQLite stores they read and write.   *)
(*                                                                          *)
(* Every await of the JavaScript code is one step of the model.  A store    *)
(* call, the mail transport and a source fetch can each succeed or fail;    *)
(* the outcome is an input of the step that makes the call.                 *)
(***************************************************************************)
EXTENDS Integers, Sequences, FiniteSets, TLC

VARIABLES
    \* ---- stores (DatabaseService tables) ----
    email_subscriptions, \* rows [email, portfolio_id, is_active]
    portfolios,          \* ids of the rows of table portfolios
    portfolio_public,    \* ids of the rows of portfolios with is_public = 1
    portfolio_stocks,    \* rows [portfolio_id, symbol, name]
    portfolio_table,     \* rows [symbol, name] of the old table portfolio
    industries_table,    \* rows [name, keywords] of table industries
    news,                \* rows of table news, in insertion order
    email_logs,          \* rows [recipient, subject, status, error_message]
    \* ---- EmailService ----
    transporter,         \* TRUE: nodemailer transport created; FALSE: null
    sdrPc,               \* position of the sendDailyReport run
    sdrGroups,           \* portfolio ids still to be served, Object.entries order
    sdrEmails,           \* recipients of the current group still to be served
    sdrGeneral,          \* generalSubscriptions
    sdrReport,           \* reportData of the current group
    sdrError,            \* what the run raised, NoError while it has not
    composeLog,          \* one entry per generate*Report call of the run
    sendLog,             \* one entry per sendEmail / sendPortfolioEmail call
    \* ---- NewsService ----
    newsApiKey,          \* TRUE: NEWSAPI_KEY or NEWS_API_KEY is set
    openai,              \* TRUE: OPENAI_API_KEY is set, this.openai created
    now,                 \* the clock: [day, tod]
    updPc,               \* position of the updateNews run
    updIdx,              \* index of the next source of the current tier
    successCount,        \* successCount of the run
    updPortfolio,        \* portfolio of the run (getPortfolioSymbols)
    updIndustries,       \* industries of the run (getWatchedIndustries)
    fetchLog,            \* one entry per source fetch of the run
    lastFetch,           \* the latest fetch: the error it raised, its saves
    cleanups,            \* the cleanOldNews calls of the run
    \* ---- direct calls of a service method ----
    lastCall,            \* the latest call: its arguments, outcomes and result
    callCount,           \* the number of calls made
    saveRuns             \* overlapping runs at their saveNews calls

storeVars == <<email_subscriptions, portfolios, portfolio_public,
               portfolio_stocks, portfolio_table,
               industries_table, news, email_logs>>

sdrVars == <<transporter, sdrPc, sdrGroups, sdrEmails, sdrGeneral, sdrReport,
             sdrError, composeLog, sendLog>>

newsVars == <<newsApiKey, openai, now, updPc, updIdx, successCount, updPortfolio,
              updIndustries, fetchLog, lastFetch, cleanups>>

callVars == <<lastCall, callCount, saveRuns>>

vars == <<storeVars, sdrVars, newsVars, callVars>>

NULL == "NULL"
\* A NULL portfolio_id: falsy in `if (sub.portfolio_id)`; row ids start at 1.
NoPortfolio == 0
NoError == [kind |-> "none", message |-> ""]

\* ---------------------------------------------------------------- bounds
MaxSubs == 3

Emails == {"ann@x.io", "bob@x.io"}
PortfolioIds == {1, 2}

ReadSites == {"subscriptions", "portfolio", "stocks", "news", "metrics", "public"}

\* ------------------------------------------------------- DatabaseService
\* A store call rejects with the driver's error (run/get/all reject on err).
StoreError == [kind |-> "store", message |-> "SQLITE_ERROR"]

\* ------------------------------------------------------------- helpers
RECURSIVE SortedIds(_)
SortedIds(S) ==
    IF S = {} THEN <<>>
    ELSE LET m == CHOOSE x \in S : \A y \in S : x <= y
         IN <<m>> \o SortedIds(S \ {m})

RECURSIVE Reverse(_)
Reverse(s) == IF s = <<>> THEN <<>> ELSE Reverse(Tail(s)) \o <<Head(s)>>

Take(s, n) == SubSeq(s, 1, IF Len(s) < n THEN Len(s) ELSE n)

Range(s) == {s[i] : i \in 1..Len(s)}

RECURSIVE MapEmail(_)
MapEmail(rows) ==
    IF rows = <<>> THEN <<>> ELSE <<Head(rows).email>> \o MapEmail(Tail(rows))

\* ------------------------------------------------------------- strings
\* String.prototype.includes.
Includes(hay, needle) ==
    \E i \in 1..(Len(hay) - Len(needle) + 1) :
        SubSeq(hay, i, i + Len(needle) - 1) = needle

UpperCaseLetters == "ABCDEFGHIJKLMNOPQRSTUVWXYZ"
LowerCaseLetters == "abcdefghijklmnopqrstuvwxyz"

LowerCaseOf ==
    [c \in {SubSeq(UpperCaseLetters, i, i) : i \in 1..Len(UpperCaseLetters)} |->
        LET i == CHOOSE i \in 1..Len(UpperCaseLetters) :
                     SubSeq(UpperCaseLetters, i, i) = c
        IN SubSeq(LowerCaseLetters, i, i)]

\* String.prototype.toLowerCase, on ASCII text.
RECURSIVE toLowerCase(_)
toLowerCase(str) ==
    IF Len(str) = 0 THEN ""
    ELSE IF Len(str) = 1
    THEN IF str \in DOMAIN LowerCaseOf THEN LowerCaseOf[str] ELSE str
    ELSE LET half == Len(str) \div 2
         IN toLowerCase(SubSeq(str, 1, half))
                \o toLowerCase(SubSeq(str, half + 1, Len(str)))

WhiteSpace == {" "}

\* String.prototype.trim.
RECURSIVE trim(_)
trim(str) ==
    IF str = "" THEN ""
    ELSE IF SubSeq(str, 1, 1) \in WhiteSpace THEN trim(SubSeq(str, 2, Len(str)))
    ELSE IF SubSeq(str, Len(str), Len(str)) \in WhiteSpace
         THEN trim(SubSeq(str, 1, Len(str) - 1))
    ELSE str

\* String.prototype.split(','): the segments between the commas, in order.
RECURSIVE splitComma(_)
splitComma(str) ==
    LET at == {i \in 1..Len(str) : SubSeq(str, i, i) = ","}
    IN IF at = {} THEN <<str>>
       ELSE LET i == CHOOSE i \in at : \A j \in at : i <= j
            IN <<SubSeq(str, 1, i - 1)>> \o splitComma(SubSeq(str, i + 1, Len(str)))

\* ------------------------------------------------ NewsService, relevance
financialKeywords ==
    <<"stock", "market", "earnings", "revenue", "profit", "loss",
      "shares", "dividend", "investment", "trading", "nasdaq", "dow",
      "s&p", "fed", "interest rate", "inflation", "gdp">>

\* The keyword list of isFinancialNews: the list above and twelve more.
financialNewsKeywords ==
    financialKeywords \o
    <<"economy", "wall street", "finance", "financial", "company", "business",
      "ceo", "ipo", "merger", "acquisition", "quarter", "fiscal">>

\* isRelevantNews matching the title as it is written.
isRelevantNews_CaseSensitive(title, portfolio, industries) ==
    \/ \E i \in 1..Len(portfolio) :
         \/ Includes(title, portfolio[i].symbol)
         \/ Includes(title, portfolio[i].name)
    \/ \E i \in 1..Len(industries) :
         LET keywords == IF industries[i].keywords \in {NULL, ""} THEN <<>>
                         ELSE splitComma(industries[i].keywords)
         IN \/ \E k \in 1..Len(keywords) : Includes(title, trim(keywords[k]))
            \/ Includes(title, industries[i].name)
    \/ \E k \in 1..Len(financialKeywords) : Includes(title, financialKeywords[k])

\* isRelevantNews(title, portfolio, industries): portfolio rows [symbol,
\* name], industries rows [name, keywords]; keywords NULL or comma-joined.
isRelevantNews(title, portfolio, industries) ==
    LET titleLower == toLowerCase(title)
    IN \/ \E i \in 1..Len(portfolio) :
            \/ Includes(titleLower, toLowerCase(portfolio[i].symbol))
            \/ Includes(titleLower, toLowerCase(portfolio[i].name))
       \/ \E i \in 1..Len(industries) :
            LET keywords == IF industries[i].keywords \in {NULL, ""} THEN <<>>
                            ELSE splitComma(industries[i].keywords)
            IN \/ \E k \in 1..Len(keywords) :
                    Includes(titleLower, toLowerCase(trim(keywords[k])))
               \/ Includes(titleLower, toLowerCase(industries[i].name))
       \/ \E k \in 1..Len(financialKeywords) :
            Includes(titleLower, financialKeywords[k])

isFinancialNews(title) ==
    LET titleLower == toLowerCase(title)
    IN \E k \in 1..Len(financialNewsKeywords) :
         Includes(titleLower, financialNewsKeywords[k])

\* extractRelatedSymbols(text, portfolio): the symbols, in portfolio order.
extractRelatedSymbols(text, portfolio) ==
    LET textLower == toLowerCase(text)
        RECURSIVE Tag(_)
        Tag(stocks) ==
            IF stocks = <<>> THEN <<>>
            ELSE IF \/ Includes(textLower, toLowerCase(Head(stocks).symbol))
                    \/ Includes(textLower, toLowerCase(Head(stocks).name))
                 THEN <<Head(stocks).symbol>> \o Tag(Tail(stocks))
                 ELSE Tag(Tail(stocks))
    IN Tag(portfolio)

categories ==
    <<[category |-> "earnings", keywords |-> <<"earnings", "revenue", "profit", "loss">>],
      [category |-> "market",
       keywords |-> <<"market", "trading", "index", "dow", "nasdaq", "s&p">>],
      [category |-> "policy",
       keywords |-> <<"fed", "interest rate", "policy", "regulation">>],
      [category |-> "economy",
       keywords |-> <<"gdp", "inflation", "employment", "economic">>]>>

\* categorizeNews looking at the keyword table before the industries.
categorizeNews_TableFirst(title, industries) ==
    LET titleLower == toLowerCase(title)
        byName == {i \in 1..Len(industries) :
                     Includes(titleLower, toLowerCase(industries[i].name))}
        byTable == {c \in 1..Len(categories) :
                      \E k \in 1..Len(categories[c].keywords) :
                          Includes(titleLower, categories[c].keywords[k])}
    IN IF byTable # {}
       THEN categories[CHOOSE c \in byTable : \A d \in byTable : c <= d].category
       ELSE IF byName # {}
       THEN industries[CHOOSE i \in byName : \A j \in byName : i <= j].name
       ELSE "general"

categorizeNews(title, industries) ==
    LET titleLower == toLowerCase(title)
        byName == {i \in 1..Len(industries) :
                     Includes(titleLower, toLowerCase(industries[i].name))}
        byTable == {c \in 1..Len(categories) :
                      \E k \in 1..Len(categories[c].keywords) :
                          Includes(titleLower, categories[c].keywords[k])}
    IN IF byName # {}
       THEN industries[CHOOSE i \in byName : \A j \in byName : i <= j].name
       ELSE IF byTable # {}
       THEN categories[CHOOSE c \in byTable : \A d \in byTable : c <= d].category
       ELSE "general"

\* ------------------------------------------------ NewsService, enrichment
ContentLimit == 2000
SummaryLimit == 200

substring0(str, n) == SubSeq(str, 1, IF Len(str) < n THEN Len(str) ELSE n)

\* fetchArticleContent(url).  page: the answer of the article's site:
\* [ok, text], text being the paragraphs of the first matching selector
\* ("" when none matches).  A failed request gives null.
fetchArticleContent(page) ==
    IF page.ok THEN substring0(page.text, ContentLimit) ELSE NULL

\* generateSummary without its catch: a failed AI call leaves no summary.
generateSummary_NoFallback(text, ai, out) ==
    IF ~ai THEN substring0(text, SummaryLimit) \o "..."
    ELSE IF out.ok THEN trim(out.text)
    ELSE ""

\* generateSummary(text).  ai: this.openai is set; out: the AI call's
\* result [ok, text].
generateSummary(text, ai, out) ==
    IF ~ai THEN substring0(text, SummaryLimit) \o "..."
    ELSE IF out.ok THEN trim(out.text)
    ELSE substring0(text, SummaryLimit) \o "..."

\* parseFloat(str), in hundredths: leading white space is skipped, then a
\* sign, "Infinity" or decimal digits with an optional fraction are read;
\* what follows them is ignored, and NaN is the result when no digit was
\* read.  Fraction digits after the second are dropped and no exponent is
\* read.
Digits == "0123456789"

CharAt(str, i) == IF i >= 1 /\ i <= Len(str) THEN SubSeq(str, i, i) ELSE ""

IsDigit(c) == \E d \in 1..Len(Digits) : SubSeq(Digits, d, d) = c

DigitValue(c) == (CHOOSE d \in 1..Len(Digits) : SubSeq(Digits, d, d) = c) - 1

RECURSIVE DigitRun(_, _)
DigitRun(str, i) ==
    IF IsDigit(CharAt(str, i)) THEN 1 + DigitRun(str, i + 1) ELSE 0

RECURSIVE Decimal(_, _, _)
Decimal(str, i, n) ==
    IF n = 0 THEN 0
    ELSE Decimal(str, i, n - 1) * 10 + DigitValue(CharAt(str, i + n - 1))

RECURSIVE trimStart(_)
trimStart(str) ==
    IF str # "" /\ SubSeq(str, 1, 1) \in WhiteSpace
    THEN trimStart(SubSeq(str, 2, Len(str)))
    ELSE str

Infinite == 10 ^ 9

parseFloat(str) ==
    LET s == trimStart(str)
        negative == CharAt(s, 1) = "-"
        first == IF CharAt(s, 1) \in {"-", "+"} THEN 2 ELSE 1
        whole == DigitRun(s, first)
        point == CharAt(s, first + whole) = "."
        fraction == IF point THEN DigitRun(s, first + whole + 1) ELSE 0
        tenths == IF fraction >= 1
                  THEN DigitValue(CharAt(s, first + whole + 1)) ELSE 0
        hundredths == IF fraction >= 2
                      THEN DigitValue(CharAt(s, first + whole + 2)) ELSE 0
        magnitude == Decimal(s, first, whole) * 100 + tenths * 10 + hundredths
        signed(v) == IF negative THEN -v ELSE v
    IN IF Len(s) >= first + 7 /\ SubSeq(s, first, first + 7) = "Infinity"
       THEN [nan |-> FALSE, value |-> signed(Infinite)]
       ELSE IF whole = 0 /\ fraction = 0 THEN [nan |-> TRUE, value |-> 0]
       ELSE [nan |-> FALSE, value |-> signed(magnitude)]

SentimentUnit == 100

Min(a, b) == IF a < b THEN a ELSE b
Max(a, b) == IF a > b THEN a ELSE b

\* analyzeSentiment returning the parsed number as it is.
analyzeSentiment_Unclamped(text, ai, out) ==
    IF ~ai \/ ~out.ok THEN 0
    ELSE LET sentiment == parseFloat(trim(out.text))
         IN IF sentiment.nan THEN 0 ELSE sentiment.value

\* analyzeSentiment(text), in hundredths.
analyzeSentiment(text, ai, out) ==
    IF ~ai THEN 0
    ELSE IF ~out.ok THEN 0
    ELSE LET sentiment == parseFloat(trim(out.text))
         IN IF sentiment.nan THEN 0
            ELSE Max(-SentimentUnit, Min(SentimentUnit, sentiment.value))

\* ------------------------------------------------ NewsService.saveNews
\* env: the outcomes of the calls saveNews makes: getOk (the existence
\* query), page (the article's site), aiSummary and aiSentiment (the AI
\* calls), insertOk (the INSERT).  The result: the store after the call,
\* and what the call did.
NewsRow(article, portfolio, industries, ai, at, env) ==
    LET content == fetchArticleContent(env.page)
        summary == generateSummary(
                       IF content \in {NULL, ""} THEN article.title ELSE content,
                       ai, env.aiSummary)
        \* article.title + ' ' + content: a null content reads "null".
        relatedSymbols == extractRelatedSymbols(
                       article.title \o " " \o
                           (IF content = NULL THEN "null" ELSE content),
                       portfolio)
        sentiment == analyzeSentiment(article.title \o " " \o summary,
                                      ai, env.aiSentiment)
        category == categorizeNews(article.title, industries)
    IN [url |-> article.url, title |-> article.title,
        content |-> content, summary |-> summary,
        source |-> article.source, category |-> category,
        symbols |-> relatedSymbols, sentiment |-> sentiment,
        created_at |-> at]

\* saveNews as an upsert: a row of the same URL is replaced by a newly
\* enriched one.
saveNews_Upsert(store, article, portfolio, industries, ai, at, env) ==
    IF ~env.getOk \/ ~env.insertOk
    THEN [news |-> store, enriched |-> env.getOk, inserted |-> FALSE,
          raised |-> FALSE]
    ELSE [news |-> Append(SelectSeq(store, LAMBDA row : row.url # article.url),
                          NewsRow(article, portfolio, industries, ai, at, env)),
          enriched |-> TRUE, inserted |-> TRUE, raised |-> FALSE]

\* saveNews without its catch: a rejected store call reaches the caller.
saveNews_Rethrow(store, article, portfolio, industries, ai, at, env) ==
    LET exists == \E i \in 1..Len(store) : store[i].url = article.url
        inserts == env.getOk /\ ~exists /\ env.insertOk
    IN [news |-> IF inserts
                 THEN Append(store, NewsRow(article, portfolio, industries, ai,
                                            at, env))
                 ELSE store,
        enriched |-> env.getOk /\ ~exists,
        inserted |-> inserts,
        raised |-> ~env.getOk \/ (~exists /\ ~env.insertOk)]

\* The two store calls of saveNews, for runs that overlap: each is one
\* statement of the store, and the awaits between them let another run in.
\* saveNewsExisting: the existence query (lines 840-847) and what follows:
\* "caught" (the query was rejected), "return" (a row of the URL exists) or
\* "enrich".
saveNewsExisting(store, article, getOk) ==
    IF ~getOk THEN "caught"
    ELSE IF \E i \in 1..Len(store) : store[i].url = article.url THEN "return"
    ELSE "enrich"

\* The INSERT on a url column without its UNIQUE constraint.
saveNewsInsert_NoUnique(store, row, insertOk) ==
    IF insertOk THEN [news |-> Append(store, row), caught |-> FALSE]
    ELSE [news |-> store, caught |-> TRUE]

\* saveNewsInsert: the INSERT (lines 864-878); the store rejects it when it
\* fails or when a row of the URL exists (url TEXT UNIQUE), and the catch of
\* saveNews takes the rejection.
saveNewsInsert(store, row, insertOk) ==
    IF insertOk /\ ~\E i \in 1..Len(store) : store[i].url = row.url
    THEN [news |-> Append(store, row), caught |-> FALSE]
    ELSE [news |-> store, caught |-> TRUE]

saveNews(store, article, portfolio, industries, ai, at, env) ==
    LET unchanged == [news |-> store, enriched |-> FALSE, inserted |-> FALSE,
                      raised |-> FALSE]
    IN IF ~env.getOk THEN unchanged
       ELSE IF \E i \in 1..Len(store) : store[i].url = article.url THEN unchanged
       ELSE IF env.insertOk
            THEN [news |-> Append(store, NewsRow(article, portfolio, industries,
                                                 ai, at, env)),
                  enriched |-> TRUE, inserted |-> TRUE, raised |-> FALSE]
            ELSE [news |-> store, enriched |-> TRUE, inserted |-> FALSE,
                  raised |-> FALSE]

\* The loop `for (const article of ...) { try { await this.saveNews(...) }
\* catch ... }` of the three fetchers: the store after it, and one entry per
\* saveNews call.
RECURSIVE SaveAll(_, _, _, _, _, _, _)
SaveAll(store, articles, portfolio, industries, ai, at, envs) ==
    IF articles = <<>> THEN [news |-> store, saves |-> <<>>]
    ELSE LET r == saveNews(store, Head(articles), portfolio, industries, ai, at,
                           Head(envs))
             rest == SaveAll(r.news, Tail(articles), portfolio, industries, ai, at,
                             Tail(envs))
         IN [news |-> rest.news,
             saves |-> <<[url |-> Head(articles).url,
                          existed |-> \E i \in 1..Len(store) :
                                          store[i].url = Head(articles).url,
                          getOk |-> Head(envs).getOk,
                          changed |-> r.news # store,
                          enriched |-> r.enriched,
                          raised |-> r.raised]>> \o rest.saves]

\* ------------------------------------------------ NewsService, fetchers
RssItemLimit == 20
RssSaveLimit == 10
ApiArticleLimit == 50
ScrapeSaveLimit == 5

\* What the HTTP client or the feed parser throws for each cause of a failed
\* source fetch; the fetchers log it and rethrow it as it is.
ParserError(cause) ==
    CASE cause = "timeout" ->
           [name |-> "Error", code |-> NULL, message |-> "Request timed out"]
      [] cause = "dns" ->
           [name |-> "Error", code |-> "ENOTFOUND", message |-> "getaddrinfo ENOTFOUND"]
      [] cause = "http_status" ->
           [name |-> "Error", code |-> NULL, message |-> "Status code 404"]
      [] OTHER ->
           [name |-> "Error", code |-> NULL, message |-> "Invalid XML"]

AxiosError(cause) ==
    CASE cause = "timeout" ->
           [name |-> "AxiosError", code |-> "ECONNABORTED", message |-> "timeout exceeded"]
      [] cause = "dns" ->
           [name |-> "AxiosError", code |-> "ENOTFOUND", message |-> "getaddrinfo ENOTFOUND"]
      [] OTHER ->
           [name |-> "AxiosError", code |-> "ERR_BAD_RESPONSE",
            message |-> "Request failed with status code"]

\* The items of a feed or page that carry a title and a link, as articles.
RECURSIVE Candidates(_, _)
Candidates(items, source) ==
    IF items = <<>> THEN <<>>
    ELSE IF Head(items).title = "" \/ Head(items).link = ""
         THEN Candidates(Tail(items), source)
         ELSE <<[title |-> Head(items).title, url |-> Head(items).link,
                 source |-> source]>> \o Candidates(Tail(items), source)

FetchError(error) == [raised |-> TRUE, error |-> error, articles |-> <<>>]
FetchOk(articles) == [raised |-> FALSE, error |-> NULL, articles |-> articles]

\* The three fetchers, up to their save loop: the error the fetch raises, or
\* the articles the loop will save.
\* scrapeRSSSource(rssSource, portfolio, industries).  answer: what
\* rssParser.parseURL gives: [ok |-> FALSE, cause] or [ok |-> TRUE, items].
scrapeRSSSource(rssSource, portfolio, industries, answer) ==
    IF ~answer.ok THEN FetchError(ParserError(answer.cause))
    ELSE LET articles == Candidates(Take(answer.items, RssItemLimit), rssSource)
             relevantArticles ==
                 SelectSeq(articles,
                           LAMBDA a : isRelevantNews(a.title, portfolio, industries))
         IN FetchOk(Take(relevantArticles, RssSaveLimit))

\* fetchNewsFromAPI(portfolio, industries).  answer: [ok |-> FALSE, cause],
\* cause "api_status" being a response whose status is not 'ok', or
\* [ok |-> TRUE, items].
fetchNewsFromAPI(portfolio, industries, answer) ==
    IF ~answer.ok
    THEN FetchError(
             IF answer.cause = "api_status"
             THEN [name |-> "Error", code |-> NULL, message |-> "News API error"]
             ELSE AxiosError(answer.cause))
    ELSE LET articles == Candidates(Take(answer.items, ApiArticleLimit), "News API")
         IN FetchOk(SelectSeq(articles,
                LAMBDA a : IF portfolio = <<>> /\ industries = <<>>
                           THEN isFinancialNews(a.title)
                           ELSE isRelevantNews(a.title, portfolio, industries)))

\* scrapeNewsSource(source, portfolio, industries).  answer: [ok |-> FALSE,
\* cause], cause "blocked" being a response with a status in 400..499 (every
\* status below 500 is accepted by validateStatus and then thrown on), or
\* [ok |-> TRUE, items], the anchors the selector matches.
scrapeNewsSource(source, portfolio, industries, answer) ==
    IF ~answer.ok
    THEN FetchError(
             IF answer.cause = "blocked"
             THEN [name |-> "Error", code |-> NULL, message |-> "HTTP 403"]
             ELSE AxiosError(answer.cause))
    ELSE LET articles == Candidates(answer.items, source)
             relevantArticles ==
                 SelectSeq(articles,
                           LAMBDA a : isRelevantNews(a.title, portfolio, industries))
         IN FetchOk(Take(relevantArticles, ScrapeSaveLimit))

\* ------------------------------------------------ NewsService, store reads
RECURSIVE UniqueBySymbol(_, _)
UniqueBySymbol(stocks, seen) ==
    IF stocks = <<>> THEN <<>>
    ELSE IF Head(stocks).symbol \in seen THEN UniqueBySymbol(Tail(stocks), seen)
    ELSE <<Head(stocks)>> \o UniqueBySymbol(Tail(stocks), seen \cup {Head(stocks).symbol})

RECURSIVE SymbolAndName(_)
SymbolAndName(rows) ==
    IF rows = <<>> THEN <<>>
    ELSE <<[symbol |-> Head(rows).symbol, name |-> Head(rows).name]>>
         \o SymbolAndName(Tail(rows))

\* getPortfolioSymbols(): the stocks of both tables, the first of each
\* symbol; [] when a read fails.
getPortfolioSymbols(newTable, oldTable, failed) ==
    IF failed THEN [raised |-> FALSE, rows |-> <<>>]
    ELSE [raised |-> FALSE,
          rows |-> UniqueBySymbol(SymbolAndName(newTable) \o SymbolAndName(oldTable), {})]

\* getWatchedIndustries(): [] when the read fails.
getWatchedIndustries(table, failed) ==
    IF failed THEN [raised |-> FALSE, rows |-> <<>>]
    ELSE [raised |-> FALSE, rows |-> table]

RetentionDays == 7

\* The clock and the timestamps: [day, tod], day a day of the month and tod
\* an hour of that day, both in UTC.
Year_Month == "2026-11-"

Pad2(n) == CharAt(Digits, (n \div 10) + 1) \o CharAt(Digits, (n % 10) + 1)

\* CURRENT_TIMESTAMP, the default of news.created_at: 'YYYY-MM-DD HH:MM:SS'.
SqlTimestamp(t) ==
    Year_Month \o Pad2(t.day) \o " " \o Pad2(t.tod) \o ":00:00"

\* Date.prototype.toISOString: 'YYYY-MM-DDTHH:MM:SS.sssZ'.
toISOString(t) ==
    Year_Month \o Pad2(t.day) \o "T" \o Pad2(t.tod) \o ":00:00.000Z"

\* The characters of the timestamps, in code order.
CodeOrder == " -.0123456789:TZ"

CharCode(c) == CHOOSE i \in 1..Len(CodeOrder) : SubSeq(CodeOrder, i, i) = c

\* a < b on TEXT values (BINARY collation): by the first differing
\* character, a proper prefix being less.
RECURSIVE TextLess(_, _)
TextLess(a, b) ==
    IF b = "" THEN FALSE
    ELSE IF a = "" THEN TRUE
    ELSE IF CharAt(a, 1) # CharAt(b, 1)
         THEN CharCode(CharAt(a, 1)) < CharCode(CharAt(b, 1))
    ELSE TextLess(SubSeq(a, 2, Len(a)), SubSeq(b, 2, Len(b)))

\* weekAgo.setDate(weekAgo.getDate() - 7).
WeekAgo(at) == [day |-> at.day - RetentionDays, tod |-> at.tod]

\* The cleanup keeping the rows of the last eight days.
cleanOldNews_Lenient(store, at, failed) ==
    [raised |-> FALSE,
     news |-> IF failed THEN store
              ELSE SelectSeq(store,
                     LAMBDA row : row.created_at.day >= at.day - RetentionDays - 1)]

\* cleanOldNews(): DELETE FROM news WHERE created_at < weekAgo.toISOString().
\* created_at is written by the store as 'YYYY-MM-DD HH:MM:SS' and compared
\* as text with 'YYYY-MM-DDTHH:MM:SS.sssZ'.  A rejected DELETE is caught.
cleanOldNews(store, at, failed) ==
    IF failed THEN [raised |-> FALSE, news |-> store]
    ELSE [raised |-> FALSE,
          news |-> SelectSeq(store,
                     LAMBDA row : ~TextLess(SqlTimestamp(row.created_at),
                                            toISOString(WeekAgo(at))))]

\* ------------------------------------------------- NewsService.getRecentNews
\* SELECT * FROM news ORDER BY created_at DESC LIMIT ?; a store failure is
\* caught and an empty list returned.
getRecentNews(limit, failed) ==
    IF failed THEN <<>> ELSE Take(Reverse(news), limit)

\* ---------------------------------------------------------- EmailService
\* The rows of the subscription query of sendDailyReport: active rows, LEFT
\* JOINed with portfolios; the joined p.id is the row's portfolio_id.
ActiveSubscriptions ==
    LET joined(r) == [email |-> r.email,
                      portfolio_id |-> IF r.portfolio_id \in portfolios
                                       THEN r.portfolio_id ELSE NoPortfolio]
        RECURSIVE Rows(_)
        Rows(rs) == IF rs = <<>> THEN <<>>
                    ELSE IF Head(rs).is_active
                         THEN <<joined(Head(rs))>> \o Rows(Tail(rs))
                         ELSE Rows(Tail(rs))
    IN Rows(email_subscriptions)

\* A group holding the email of every row, whatever its portfolio_id.
GroupEmails_EveryRow(subs, pid) == MapEmail(subs)

\* portfolioSubscriptions[portfolio_id].emails, in row order.
GroupEmails(subs, pid) ==
    MapEmail(SelectSeq(subs, LAMBDA r : r.portfolio_id = pid))

\* The grouping with one group per subscription row instead of one per
\* portfolio_id.
PortfolioGroups_PerRow(subs) ==
    LET RECURSIVE Ids(_)
        Ids(rs) == IF rs = <<>> THEN <<>>
                   ELSE IF Head(rs).portfolio_id = NoPortfolio THEN Ids(Tail(rs))
                   ELSE <<Head(rs).portfolio_id>> \o Ids(Tail(rs))
    IN Ids(subs)

\* Object.entries(portfolioSubscriptions): integer keys in ascending order.
PortfolioGroups(subs) ==
    SortedIds({subs[i].portfolio_id : i \in 1..Len(subs)} \ {NoPortfolio})

GeneralSubscriptions(subs) ==
    MapEmail(SelectSeq(subs, LAMBDA r : r.portfolio_id = NoPortfolio))

RecentLimitPortfolio == 20
RecentLimitGeneral == 10

StocksOf(pid) == SelectSeq(portfolio_stocks, LAMBDA r : r.portfolio_id = pid)

\* targetDate = null; a target date is a day of the month.
NoDate == 0

\* new Date(targetDate), or new Date() when no target date is given.
ReportDate(targetDate) ==
    IF targetDate = NoDate THEN now ELSE [day |-> targetDate, tod |-> 0]

\* endDate.setHours(23, 59, 59, 999) and toISOString.
EndOfDayISOString(t) == Year_Month \o Pad2(t.day) \o "T23:59:59.999Z"

\* created_at >= from AND created_at <= to, on TEXT values.
Between(row, from, to) ==
    /\ ~TextLess(SqlTimestamp(row.created_at), from)
    /\ ~TextLess(to, SqlTimestamp(row.created_at))

\* SELECT * FROM news WHERE created_at >= ? AND created_at <= ? ORDER BY
\* created_at DESC, for the calendar day of reportDate.
NewsOfDay(reportDate) ==
    Reverse(SelectSeq(news,
        LAMBDA row : Between(row, toISOString([day |-> reportDate.day, tod |-> 0]),
                             EndOfDayISOString(reportDate))))

\* An object key that is an array index: a canonical decimal numeral.
IsArrayIndex(key) ==
    /\ key # ""
    /\ \A i \in 1..Len(key) : IsDigit(CharAt(key, i))
    /\ Len(key) = 1 \/ CharAt(key, 1) # "0"

RECURSIVE FirstSeen(_, _)
FirstSeen(keys, seen) ==
    IF keys = <<>> THEN <<>>
    ELSE IF Head(keys) \in seen THEN FirstSeen(Tail(keys), seen)
    ELSE <<Head(keys)>> \o FirstSeen(Tail(keys), seen \cup {Head(keys)})

RECURSIVE SortByIndex(_)
SortByIndex(keys) ==
    IF keys = {} THEN <<>>
    ELSE LET k == CHOOSE x \in keys :
                    \A y \in keys :
                        Decimal(x, 1, Len(x)) <= Decimal(y, 1, Len(y))
         IN <<k>> \o SortByIndex(keys \ {k})

\* The own keys of an object whose keys were added in the order `keys`:
\* the array indices in ascending order, then the other keys as added.
ObjectKeys(keys) ==
    LET added == FirstSeen(keys, {})
    IN SortByIndex({k \in Range(added) : IsArrayIndex(k)})
           \o SelectSeq(added, LAMBDA k : ~IsArrayIndex(k))

\* news.category || 'general'.
CategoryOf(row) == IF row.category \in {NULL, ""} THEN "general" ELSE row.category

RECURSIVE MapCategory(_)
MapCategory(rows) ==
    IF rows = <<>> THEN <<>>
    ELSE <<CategoryOf(Head(rows))>> \o MapCategory(Tail(rows))

\* newsByCategory, as Object.entries gives it: [category, news] pairs.
NewsByCategory(rows) ==
    LET keys == ObjectKeys(MapCategory(rows))
    IN [i \in 1..Len(keys) |->
          [category |-> keys[i],
           news |-> SelectSeq(rows, LAMBDA row : CategoryOf(row) = keys[i])]]

RECURSIVE SumSentiment(_)
SumSentiment(rows) ==
    IF rows = <<>> THEN 0
    ELSE Head(rows).sentiment + SumSentiment(Tail(rows))

\* The average of news.sentiment || 0, in hundredths, rounded down; 0 for no
\* rows.
AvgSentiment(rows) ==
    IF rows = <<>> THEN 0 ELSE SumSentiment(rows) \div Len(rows)

RECURSIVE JoinQuoted(_)
JoinQuoted(symbols) ==
    IF symbols = <<>> THEN ""
    ELSE "\"" \o Head(symbols) \o "\""
         \o (IF Tail(symbols) = <<>> THEN "" ELSE ",")
         \o JoinQuoted(Tail(symbols))

\* JSON.stringify(relatedSymbols), the text of news.symbols.
JsonStringify(symbols) == "[" \o JoinQuoted(symbols) \o "]"

\* JSON_EXTRACT(n.symbols, '$') LIKE '%' || ps.symbol || '%' for some stock
\* of the portfolio; LIKE does not tell the case of ASCII letters.
SymbolsLike(row, pid) ==
    \E i \in 1..Len(StocksOf(pid)) :
        Includes(toLowerCase(JsonStringify(row.symbols)),
                 toLowerCase(StocksOf(pid)[i].symbol))

\* oneMonthAgo.setMonth(oneMonthAgo.getMonth() - 1) and toISOString.
MonthAgoISOString(t) ==
    "2026-10-" \o Pad2(t.day) \o "T" \o Pad2(t.tod) \o ":00:00.000Z"

NoMetrics == [weeklyNewsCount |-> 0, monthlyNewsCount |-> 0, avgSentiment |-> 0]

\* calculatePortfolioMetrics(portfolioId, date): three queries in one try;
\* the catch returns the zero metrics.  reads: the queries issued.
calculatePortfolioMetrics(pid, date, faults) ==
    LET weekly == SelectSeq(news, LAMBDA row :
                      /\ Between(row, toISOString(WeekAgo(date)), toISOString(date))
                      /\ SymbolsLike(row, pid))
        monthly == SelectSeq(news, LAMBDA row :
                      /\ Between(row, MonthAgoISOString(date), toISOString(date))
                      /\ SymbolsLike(row, pid))
        \* n.sentiment IS NOT NULL: saveNews stores a number with every row.
        rated == weekly
    IN IF "metrics" \in faults
       THEN [metrics |-> NoMetrics, reads |-> <<"metrics">>]
       ELSE IF "metricsMonthly" \in faults
       THEN [metrics |-> NoMetrics, reads |-> <<"metrics", "metricsMonthly">>]
       ELSE IF "metricsSentiment" \in faults
       THEN [metrics |-> NoMetrics,
             reads |-> <<"metrics", "metricsMonthly", "metricsSentiment">>]
       ELSE [metrics |-> [weeklyNewsCount |-> Len(weekly),
                          monthlyNewsCount |-> Len(monthly),
                          avgSentiment |-> AvgSentiment(rated)],
             reads |-> <<"metrics", "metricsMonthly", "metricsSentiment">>]

\* The empty variant counting the news of the store.
generateEmptyPortfolioReport_WithNews(pid) ==
    [kind |-> "portfolio", portfolio |-> pid, isEmpty |-> TRUE,
     totalNews |-> Len(news), portfolioNews |-> <<>>, newsByCategory |-> <<>>,
     marketSentiment |-> 0, metricsDefaulted |-> FALSE]

generateEmptyPortfolioReport(pid) ==
    [kind |-> "portfolio", portfolio |-> pid, isEmpty |-> TRUE,
     totalNews |-> 0, portfolioNews |-> <<>>, newsByCategory |-> <<>>,
     marketSentiment |-> 0, metricsDefaulted |-> FALSE]

\* generatePortfolioReport(portfolioId, targetDate).  faults: the store
\* reads that would reject in this call.  The result is the report, or the
\* error the call raises, with the store reads the call issued, in order,
\* and the candidate articles (recentNews) when they were read.
generatePortfolioReport(pid, targetDate, faults) ==
    IF "portfolio" \in faults
    THEN [ok |-> FALSE, error |-> StoreError, reads |-> <<"portfolio">>]
    ELSE IF pid \notin portfolios
    THEN [ok |-> FALSE,
          error |-> [kind |-> "compose", message |-> "Portfolio not found"],
          reads |-> <<"portfolio">>]
    ELSE IF "stocks" \in faults
    THEN [ok |-> FALSE, error |-> StoreError, reads |-> <<"portfolio", "stocks">>]
    ELSE IF StocksOf(pid) = <<>>
    THEN [ok |-> TRUE, report |-> generateEmptyPortfolioReport(pid),
          reads |-> <<"portfolio", "stocks">>, recentNews |-> <<>>]
    ELSE IF targetDate # NoDate /\ "news" \in faults
    THEN [ok |-> FALSE, error |-> StoreError,
          reads |-> <<"portfolio", "stocks", "news">>]
    ELSE
      LET symbols == {StocksOf(pid)[i].symbol : i \in 1..Len(StocksOf(pid))}
          recentNews ==
              IF targetDate # NoDate THEN NewsOfDay(ReportDate(targetDate))
              ELSE getRecentNews(RecentLimitPortfolio, "news" \in faults)
          portfolioNews ==
              SelectSeq(recentNews, LAMBDA n : Range(n.symbols) \cap symbols # {})
          performanceMetrics ==
              calculatePortfolioMetrics(pid, ReportDate(targetDate), faults)
      IN [ok |-> TRUE,
          report |-> [kind |-> "portfolio", portfolio |-> pid, isEmpty |-> FALSE,
                      totalNews |-> Len(portfolioNews),
                      portfolioNews |-> portfolioNews,
                      newsByCategory |-> NewsByCategory(portfolioNews),
                      marketSentiment |-> AvgSentiment(portfolioNews),
                      metrics |-> performanceMetrics.metrics,
                      metricsDefaulted |->
                          faults \cap Range(performanceMetrics.reads) # {}],
          reads |-> <<"portfolio", "stocks", "news">> \o performanceMetrics.reads,
          recentNews |-> recentNews]

PublicLimit == 5

\* The general report built as a portfolio report is: from the 20 latest
\* articles, those that name a held symbol.
generateGeneralReport_Filtered(faults) ==
    LET recentNews == getRecentNews(RecentLimitPortfolio, "news" \in faults)
        held == SelectSeq(recentNews, LAMBDA n :
                    \E i \in 1..Len(portfolio_stocks) :
                        portfolio_stocks[i].symbol \in Range(n.symbols))
    IN IF "public" \in faults
       THEN [ok |-> FALSE, error |-> StoreError, reads |-> <<"news", "public">>]
       ELSE [ok |-> TRUE,
             report |-> [kind |-> "general", portfolio |-> NoPortfolio,
                         isEmpty |-> FALSE, totalNews |-> Len(held),
                         portfolioNews |-> held,
                         newsByCategory |-> NewsByCategory(held),
                         marketSentiment |-> AvgSentiment(held),
                         metricsDefaulted |-> FALSE,
                         publicPortfolios |->
                             Take(Reverse(SortedIds(portfolio_public)), PublicLimit)],
             reads |-> <<"news", "public">>,
             recentNews |-> recentNews]

\* generateGeneralReport().
generateGeneralReport(faults) ==
    LET recentNews == getRecentNews(RecentLimitGeneral, "news" \in faults)
        \* WHERE p.is_public = 1 ORDER BY p.created_at DESC LIMIT 5
        publicPortfolios == Take(Reverse(SortedIds(portfolio_public)), PublicLimit)
    IN IF "public" \in faults
       THEN [ok |-> FALSE, error |-> StoreError, reads |-> <<"news", "public">>]
       ELSE [ok |-> TRUE,
             report |-> [kind |-> "general", portfolio |-> NoPortfolio,
                         isEmpty |-> FALSE, totalNews |-> Len(recentNews),
                         portfolioNews |-> <<>>,
                         newsByCategory |-> NewsByCategory(recentNews),
                         marketSentiment |-> AvgSentiment(recentNews),
                         metricsDefaulted |-> FALSE,
                         publicPortfolios |-> publicPortfolios],
             reads |-> <<"news", "public">>,
             recentNews |-> recentNews]

\* One composeLog entry: the call, the store reads it issued, those of them
\* that failed, and whether it returned a report.
ComposeEntry(kind, pid, faults, r) ==
    [kind |-> kind, portfolio |-> pid, reads |-> r.reads,
     failed |-> faults \cap Range(r.reads), ok |-> r.ok]

\* The mail transport's answer to sendMail, and whether each INSERT INTO
\* email_logs of the call succeeds.
SendOutcomes == [accepted : BOOLEAN, logOk : BOOLEAN, errLogOk : BOOLEAN]

TransportError == [kind |-> "transport", message |-> "SMTP_ERROR"]
NotConfigured == [kind |-> "config", message |-> "Email transporter not configured"]

SentSubject(reportData) ==
    IF reportData.kind = "portfolio" THEN "portfolio-daily" ELSE "market-daily"

\* The common body of sendEmail and sendPortfolioEmail: rows: what the call
\* appends to email_logs; raised: whether it throws, and error: what;
\* logFailed: whether an INSERT INTO email_logs of the call was rejected.
SendBody(recipient, reportData, tr, o) ==
    IF ~tr
    THEN [rows |-> <<>>, raised |-> TRUE, error |-> NotConfigured,
          logFailed |-> FALSE]
    ELSE IF o.accepted /\ o.logOk
    THEN [rows |-> <<[recipient |-> recipient, subject |-> SentSubject(reportData),
                      status |-> "sent", error_message |-> NULL]>>,
          raised |-> FALSE, error |-> NoError, logFailed |-> FALSE]
    ELSE LET error == IF o.accepted THEN StoreError ELSE TransportError
         IN IF o.errLogOk
            THEN [rows |-> <<[recipient |-> recipient, subject |-> "market-daily",
                              status |-> "failed",
                              error_message |-> error.message]>>,
                  raised |-> TRUE, error |-> error, logFailed |-> o.accepted]
            ELSE [rows |-> <<>>, raised |-> TRUE, error |-> StoreError,
                  logFailed |-> TRUE]

sendEmail(recipient, reportData, tr, o) == SendBody(recipient, reportData, tr, o)

sendPortfolioEmail(recipient, reportData, tr, o) ==
    SendBody(recipient, reportData, tr, o)

\* ------------------------------------------------- sendDailyReport, by step
\* Where the run goes after the portfolio groups in `groups` are left.
AfterGroups(groups, general) ==
    IF groups # <<>> THEN "composePortfolio"
    ELSE IF general # <<>> THEN "composeGeneral"
    ELSE "done"

\* A sendDailyReport step that drops the stored news it has read.
SdrUnchangedStores_ConsumesNews ==
    /\ news' = <<>>
    /\ UNCHANGED <<email_subscriptions, portfolios, portfolio_public, portfolio_stocks,
                   portfolio_table, industries_table, transporter, newsVars, callVars>>

SdrUnchangedStores ==
    UNCHANGED <<email_subscriptions, portfolios, portfolio_public, portfolio_stocks, portfolio_table,
                industries_table, news, transporter, newsVars, callVars>>

\* The subscription query and the grouping (lines 41-64).
SdrStart ==
    /\ sdrPc = "idle"
    /\ \E failed \in BOOLEAN :
         IF failed
         THEN /\ sdrPc' = "raised"
              /\ sdrError' = StoreError
              /\ UNCHANGED <<sdrGroups, sdrGeneral>>
         ELSE LET subs == ActiveSubscriptions
              IN /\ sdrGroups' = PortfolioGroups(subs)
                 /\ sdrGeneral' = GeneralSubscriptions(subs)
                 /\ sdrPc' = AfterGroups(PortfolioGroups(subs),
                                         GeneralSubscriptions(subs))
                 /\ UNCHANGED sdrError
    /\ UNCHANGED <<sdrEmails, sdrReport, composeLog, sendLog, email_logs>>
    /\ SdrUnchangedStores

\* generatePortfolioReport for the next group (line 68).
SdrComposePortfolio ==
    /\ sdrPc = "composePortfolio"
    /\ \E faults \in SUBSET {"portfolio", "stocks", "news", "metrics"} :
         LET pid == Head(sdrGroups)
             r == generatePortfolioReport(pid, NoDate, faults)
         IN /\ composeLog' = Append(composeLog,
                  ComposeEntry("portfolio", pid, faults, r))
            /\ IF r.ok
               THEN /\ sdrReport' = r.report
                    /\ sdrEmails' = GroupEmails(ActiveSubscriptions, pid)
                    /\ sdrPc' = "sendPortfolio"
                    /\ UNCHANGED sdrError
               ELSE /\ sdrPc' = "raised"
                    /\ sdrError' = r.error
                    /\ UNCHANGED <<sdrReport, sdrEmails>>
    /\ UNCHANGED <<sdrGroups, sdrGeneral, sendLog, email_logs>>
    /\ SdrUnchangedStores

\* One pass of the inner loop (lines 70-72).
SdrSendPortfolio ==
    /\ sdrPc = "sendPortfolio"
    /\ \E o \in SendOutcomes :
         LET email == Head(sdrEmails)
             r == sendPortfolioEmail(email, sdrReport, transporter, o)
         IN /\ sendLog' = Append(sendLog,
                  [recipient |-> email, kind |-> "portfolio",
                   portfolio |-> Head(sdrGroups), configured |-> transporter,
                   accepted |-> transporter /\ o.accepted,
                   rows |-> r.rows, raised |-> r.raised,
                   logFailed |-> r.logFailed])
            /\ email_logs' = email_logs \o r.rows
            /\ IF r.raised
               THEN /\ sdrPc' = "raised"
                    /\ sdrError' = r.error
                    /\ UNCHANGED <<sdrEmails, sdrGroups>>
               ELSE /\ sdrEmails' = Tail(sdrEmails)
                    /\ sdrGroups' = IF Tail(sdrEmails) = <<>>
                                    THEN Tail(sdrGroups) ELSE sdrGroups
                    /\ sdrPc' = IF Tail(sdrEmails) = <<>>
                                THEN AfterGroups(Tail(sdrGroups), sdrGeneral)
                                ELSE "sendPortfolio"
                    /\ UNCHANGED sdrError
    /\ UNCHANGED <<sdrGeneral, sdrReport, composeLog>>
    /\ SdrUnchangedStores

\* generateGeneralReport (line 77).
SdrComposeGeneral ==
    /\ sdrPc = "composeGeneral"
    /\ \E faults \in SUBSET {"news", "public"} :
         LET r == generateGeneralReport(faults)
         IN /\ composeLog' = Append(composeLog,
                  ComposeEntry("general", NoPortfolio, faults, r))
            /\ IF r.ok
               THEN /\ sdrReport' = r.report
                    /\ sdrEmails' = sdrGeneral
                    /\ sdrPc' = "sendGeneral"
                    /\ UNCHANGED sdrError
               ELSE /\ sdrPc' = "raised"
                    /\ sdrError' = r.error
                    /\ UNCHANGED <<sdrReport, sdrEmails>>
    /\ UNCHANGED <<sdrGroups, sdrGeneral, sendLog, email_logs>>
    /\ SdrUnchangedStores

\* One pass of the loop over generalSubscriptions (lines 79-81).
SdrSendGeneral ==
    /\ sdrPc = "sendGeneral"
    /\ \E o \in SendOutcomes :
         LET email == Head(sdrEmails)
             r == sendEmail(email, sdrReport, transporter, o)
         IN /\ sendLog' = Append(sendLog,
                  [recipient |-> email, kind |-> "general",
                   portfolio |-> NoPortfolio, configured |-> transporter,
                   accepted |-> transporter /\ o.accepted,
                   rows |-> r.rows, raised |-> r.raised,
                   logFailed |-> r.logFailed])
            /\ email_logs' = email_logs \o r.rows
            /\ IF r.raised
               THEN /\ sdrPc' = "raised"
                    /\ sdrError' = r.error
                    /\ UNCHANGED sdrEmails
               ELSE /\ sdrEmails' = Tail(sdrEmails)
                    /\ sdrPc' = IF Tail(sdrEmails) = <<>> THEN "done"
                                ELSE "sendGeneral"
                    /\ UNCHANGED sdrError
    /\ UNCHANGED <<sdrGroups, sdrGeneral, sdrReport, composeLog>>
    /\ SdrUnchangedStores

\* ------------------------------------------------------------ SpecSend
\* No service method has been called directly.
NoCalls ==
    /\ lastCall = [method |-> "none"]
    /\ callCount = 0
    /\ saveRuns = <<>>

SubscriptionRows ==
    [email : Emails, portfolio_id : PortfolioIds \cup {NoPortfolio},
     is_active : BOOLEAN]

SubscriptionTables ==
    UNION {[1..n -> SubscriptionRows] : n \in 0..MaxSubs}

SampleStocks ==
    <<[portfolio_id |-> 1, symbol |-> "AAPL", name |-> "Apple"]>>

SampleNews ==
    <<[url |-> "n.io/1", title |-> "Apple up",
       content |-> NULL, summary |-> "Apple up...",
       source |-> "BBC Business", category |-> "general",
       symbols |-> <<"AAPL">>, sentiment |-> 0,
       created_at |-> [day |-> 9, tod |-> 1]],
      [url |-> "n.io/9", title |-> "Fed holds",
       content |-> NULL, summary |-> "Fed holds...",
       source |-> "CNN Business", category |-> "policy",
       symbols |-> <<>>, sentiment |-> 0,
       created_at |-> [day |-> 2, tod |-> 1]]>>

\* The NewsService part of a state in which no updateNews run has started.
NewsIdle ==
    /\ updPc = "idle"
    /\ updIdx = 1
    /\ successCount = 0
    /\ updPortfolio = <<>>
    /\ updIndustries = <<>>
    /\ fetchLog = <<>>
    /\ lastFetch = [raised |-> FALSE, error |-> NULL, planned |-> 0,
                    saves |-> <<>>]
    /\ cleanups = <<>>

InitSend ==
    /\ email_subscriptions \in SubscriptionTables
    /\ portfolios = PortfolioIds
    /\ portfolio_public = {}
    /\ portfolio_stocks = SampleStocks
    /\ portfolio_table = <<>>
    /\ industries_table = <<>>
    /\ news = SampleNews
    /\ email_logs = <<>>
    /\ newsApiKey = FALSE
    /\ openai = FALSE
    /\ now = [day |-> 10, tod |-> 1]
    /\ NewsIdle
    /\ NoCalls
    /\ transporter \in BOOLEAN
    /\ sdrPc = "idle"
    /\ sdrGroups = <<>>
    /\ sdrEmails = <<>>
    /\ sdrGeneral = <<>>
    /\ sdrReport = NULL
    /\ sdrError = NoError
    /\ composeLog = <<>>
    /\ sendLog = <<>>

NextSend ==
    \/ SdrStart
    \/ SdrComposePortfolio
    \/ SdrSendPortfolio
    \/ SdrComposeGeneral
    \/ SdrSendGeneral

SpecSend == InitSend /\ [][NextSend]_vars

\* ------------------------------------------------- claims on sendDailyReport
RunEnded == sdrPc \in {"done", "raised"}

ActiveRows == SelectSeq(email_subscriptions, LAMBDA r : r.is_active)

\* The sends a complete run makes: every active subscription, as the pair of
\* its email and its portfolio_id.
PlannedSends ==
    {[recipient |-> ActiveRows[i].email, portfolio |-> ActiveRows[i].portfolio_id] :
        i \in 1..Len(ActiveRows)}

Attempted(p) ==
    \E j \in 1..Len(sendLog) :
        sendLog[j].recipient = p.recipient /\ sendLog[j].portfolio = p.portfolio

\* The position of a planned send in the run: groups in ascending
\* portfolio_id order, the general group last.
GroupRank(pid) == IF pid = NoPortfolio THEN Cardinality(PortfolioIds) + 1 ELSE pid

ComposeCount(kind, pid) ==
    Cardinality({i \in 1..Len(composeLog) :
        composeLog[i].kind = kind /\ composeLog[i].portfolio = pid})

SendCount(pid) ==
    Cardinality({i \in 1..Len(sendLog) : sendLog[i].portfolio = pid})

ActiveCount(pid) ==
    Cardinality({i \in 1..Len(ActiveRows) : ActiveRows[i].portfolio_id = pid})

\* C1: a failed send is logged as 'failed' with its error text (the transport
\* being configured and the log store taking the row) and does not abort the
\* run: once the run has ended without a failed composition, every planned
\* send of the failed recipient's group and of the later groups has been
\* attempted.
C1_SendFailureDoesNotAbort ==
    \A i \in 1..Len(sendLog) :
        sendLog[i].raised =>
            /\ (sendLog[i].configured /\ ~sendLog[i].logFailed) =>
                  /\ Len(sendLog[i].rows) = 1
                  /\ sendLog[i].rows[1].recipient = sendLog[i].recipient
                  /\ sendLog[i].rows[1].status = "failed"
                  /\ sendLog[i].rows[1].error_message # NULL
            /\ (RunEnded /\ \A k \in 1..Len(composeLog) : composeLog[k].ok)
                 => \A p \in PlannedSends :
                      GroupRank(p.portfolio) >= GroupRank(sendLog[i].portfolio)
                        => Attempted(p)

\* C2: a failed portfolio composition is fatal to its own group only: once
\* the run has ended, every planned send of every other group has been
\* attempted.
C2_ComposeFailureIsolated ==
    RunEnded =>
        \A k \in 1..Len(composeLog) :
            (composeLog[k].kind = "portfolio" /\ ~composeLog[k].ok)
              => \A p \in PlannedSends :
                   p.portfolio # composeLog[k].portfolio => Attempted(p)

C8_OneLogRowPerAttempt ==
    \A i \in 1..Len(sendLog) :
        ~sendLog[i].logFailed =>
            /\ Len(sendLog[i].rows) = 1
            /\ sendLog[i].rows[1].recipient = sendLog[i].recipient
            /\ (sendLog[i].rows[1].status = "sent") <=> sendLog[i].accepted
            /\ ~sendLog[i].accepted =>
                 /\ sendLog[i].rows[1].status = "failed"
                 /\ sendLog[i].rows[1].error_message # NULL

\* C10: a composition in which a store read other than the trailing metrics
\* fails (the read of recent news included) raises instead of returning a
\* report.
C10_CompositionNeverSwallows ==
    \A k \in 1..Len(composeLog) :
        composeLog[k].failed \ {"metrics"} # {} => ~composeLog[k].ok

\* ------------------------------------------------------ updateNews, by step
\* The sources of the registry the model runs: the first RssModelled of
\* this.rssSources, and this.newsSources.
RssModelled == 2

rssSources ==
    SubSeq(<<"BBC Business", "CNN Business", "Yahoo Finance", "MarketWatch",
             "Bloomberg Markets", "CNBC Markets", "Forbes Business",
             "Business Insider", "Seeking Alpha", "The Motley Fool",
             "Barrons Real-time", "TechCrunch", "WSJ Markets">>, 1, RssModelled)

newsSources == <<"Reuters Finance", "Yahoo Finance", "MarketWatch">>

\* What a source answers with when it answers: the items of its feed or the
\* anchors of its page, titles and links.
AppleUp == [title |-> "Apple up", link |-> "n.io/1"]
BakeryPrize == [title |-> "Bakery prize", link |-> "n.io/2"]
NewCeo == [title |-> "New CEO", link |-> "n.io/3"]
Untitled == [title |-> "", link |-> "n.io/4"]
FedCut == [title |-> "Fed cut", link |-> "n.io/5"]

Feeds ==
    {<<>>, <<AppleUp>>, <<BakeryPrize, NewCeo>>, <<Untitled, AppleUp>>,
     <<NewCeo, AppleUp>>, <<FedCut, AppleUp>>}

Answers(causes) ==
    {[ok |-> FALSE, cause |-> c] : c \in causes}
        \cup {[ok |-> TRUE, items |-> f] : f \in Feeds}

RssAnswers == Answers({"timeout", "dns", "http_status", "malformed"})
ApiAnswers == Answers({"timeout", "dns", "http_status", "api_status"})
ScrapeAnswers == Answers({"timeout", "dns", "http_status", "blocked"})

NoAiOut == [ok |-> FALSE, text |-> ""]
SamplePage == [ok |-> TRUE, text |-> "AAPL rises"]

SaveEnvs ==
    {[getOk |-> TRUE, page |-> SamplePage, aiSummary |-> NoAiOut,
      aiSentiment |-> NoAiOut, insertOk |-> TRUE],
     [getOk |-> TRUE, page |-> [ok |-> FALSE, text |-> ""], aiSummary |-> NoAiOut,
      aiSentiment |-> NoAiOut, insertOk |-> TRUE],
     [getOk |-> FALSE, page |-> SamplePage, aiSummary |-> NoAiOut,
      aiSentiment |-> NoAiOut, insertOk |-> TRUE],
     [getOk |-> TRUE, page |-> SamplePage, aiSummary |-> NoAiOut,
      aiSentiment |-> NoAiOut, insertOk |-> FALSE]}

UpdUnchangedRest ==
    UNCHANGED <<email_subscriptions, portfolios, portfolio_public, portfolio_stocks, portfolio_table,
                industries_table, email_logs, sdrVars, newsApiKey, openai, now,
                callVars>>

\* The API tier as a fallback: attempted only when no RSS source succeeded.
AfterRss_ApiAsFallback(count) ==
    IF count # 0 THEN "cleanup"
    ELSE IF newsApiKey THEN "api" ELSE "scrape"

\* The scrape tier attempted whatever the API tier gave.
AfterApi_AlwaysScrape(count) == "scrape"

\* A source's error passed on to the caller of updateNews.
CatchSource_Rethrow(r, count) ==
    [raised |-> r.raised, count |-> IF r.raised THEN count ELSE count + 1]

\* The run returning without the cleanup once a source has succeeded.
AfterApi_CleanupOnlyAfterFailure(count) == IF count = 0 THEN "scrape" ELSE "done"

\* A source counted only when it gave an article to save.
CatchSource_CountsArticles(r, count) ==
    [raised |-> FALSE,
     count |-> IF r.raised \/ r.articles = <<>> THEN count ELSE count + 1]

\* Where the run goes after the RSS tier and, when a key is set, the API
\* tier (lines 495 and 507).
AfterRss(count) ==
    IF newsApiKey THEN "api"
    ELSE IF count = 0 THEN "scrape" ELSE "cleanup"

AfterApi(count) == IF count = 0 THEN "scrape" ELSE "cleanup"

\* The try/catch around one source (lines 485-491, 496-503, 510-516): the
\* count after it, and whether anything escapes it.
CatchSource(r, count) ==
    [raised |-> FALSE, count |-> IF r.raised THEN count ELSE count + 1]

FetchEntry(tier, source, r) ==
    [tier |-> tier, source |-> source, ok |-> ~r.raised]

\* getPortfolioSymbols and getWatchedIndustries (lines 477-478).
UpdStart ==
    /\ updPc = "idle"
    /\ \E pFailed \in BOOLEAN, iFailed \in BOOLEAN :
         LET p == getPortfolioSymbols(portfolio_stocks, portfolio_table, pFailed)
             i == getWatchedIndustries(industries_table, iFailed)
         IN IF p.raised \/ i.raised
            THEN /\ updPc' = "raised"
                 /\ UNCHANGED <<updPortfolio, updIndustries>>
            ELSE /\ updPc' = "rss"
                 /\ updPortfolio' = p.rows
                 /\ updIndustries' = i.rows
    /\ updIdx' = 1
    /\ successCount' = 0
    /\ UNCHANGED <<news, fetchLog, lastFetch, cleanups>>
    /\ UpdUnchangedRest

\* The save loop of a fetch r and the catch around the fetch: the store, the
\* logs and the count after them.
UpdFetched(tier, source, r, envs) ==
    LET saved == SaveAll(news, r.articles, updPortfolio, updIndustries, openai,
                         now, envs)
    IN /\ news' = saved.news
       /\ fetchLog' = Append(fetchLog, FetchEntry(tier, source, r))
       /\ lastFetch' = [raised |-> r.raised, error |-> r.error,
                       planned |-> Len(r.articles), saves |-> saved.saves]
       /\ successCount' = CatchSource(r, successCount).count

\* One pass of the loop over this.rssSources (lines 484-492).
UpdRss ==
    /\ updPc = "rss"
    /\ \E answer \in RssAnswers :
         LET r == scrapeRSSSource(rssSources[updIdx], updPortfolio, updIndustries,
                                  answer)
             c == CatchSource(r, successCount)
         IN /\ \E envs \in [1..Len(r.articles) -> SaveEnvs] :
                  UpdFetched("rss", rssSources[updIdx], r, envs)
            /\ updPc' = IF c.raised THEN "raised"
                        ELSE IF updIdx < Len(rssSources) THEN "rss"
                        ELSE AfterRss(c.count)
            /\ updIdx' = IF updIdx < Len(rssSources) THEN updIdx + 1 ELSE 1
    /\ UNCHANGED <<updPortfolio, updIndustries, cleanups>>
    /\ UpdUnchangedRest

\* The News API supplement (lines 495-504).
UpdApi ==
    /\ updPc = "api"
    /\ \E answer \in ApiAnswers :
         LET r == fetchNewsFromAPI(updPortfolio, updIndustries, answer)
             c == CatchSource(r, successCount)
         IN /\ \E envs \in [1..Len(r.articles) -> SaveEnvs] :
                  UpdFetched("api", "News API", r, envs)
            /\ updPc' = IF c.raised THEN "raised" ELSE AfterApi(c.count)
    /\ UNCHANGED <<updIdx, updPortfolio, updIndustries, cleanups>>
    /\ UpdUnchangedRest

\* One pass of the loop over this.newsSources (lines 509-517).
UpdScrape ==
    /\ updPc = "scrape"
    /\ \E answer \in ScrapeAnswers :
         LET r == scrapeNewsSource(newsSources[updIdx], updPortfolio, updIndustries,
                                   answer)
             c == CatchSource(r, successCount)
         IN /\ \E envs \in [1..Len(r.articles) -> SaveEnvs] :
                  UpdFetched("scrape", newsSources[updIdx], r, envs)
            /\ updPc' = IF c.raised THEN "raised"
                        ELSE IF updIdx < Len(newsSources) THEN "scrape"
                        ELSE "cleanup"
            /\ updIdx' = IF updIdx < Len(newsSources) THEN updIdx + 1 ELSE 1
    /\ UNCHANGED <<updPortfolio, updIndustries, cleanups>>
    /\ UpdUnchangedRest

\* cleanOldNews and the return (line 527).
UpdCleanup ==
    /\ updPc = "cleanup"
    /\ \E failed \in BOOLEAN :
         LET r == cleanOldNews(news, now, failed)
         IN /\ news' = r.news
            /\ cleanups' = Append(cleanups, [failed |-> failed, after |-> Len(fetchLog)])
            /\ updPc' = IF r.raised THEN "raised" ELSE "done"
    /\ UNCHANGED <<updIdx, successCount, updPortfolio, updIndustries, fetchLog,
                   lastFetch>>
    /\ UpdUnchangedRest

\* ------------------------------------------------------------ SpecNews
SampleIndustries == <<[name |-> "Tech", keywords |-> "chip, ai"]>>

InitNews ==
    /\ email_subscriptions = <<>>
    /\ portfolios = PortfolioIds
    /\ portfolio_public = {}
    /\ portfolio_stocks \in {<<>>, SampleStocks}
    /\ portfolio_table = <<>>
    /\ industries_table \in {<<>>, SampleIndustries}
    /\ news \in {<<>>, SampleNews}
    /\ email_logs = <<>>
    /\ transporter = FALSE
    /\ sdrPc = "idle"
    /\ sdrGroups = <<>>
    /\ sdrEmails = <<>>
    /\ sdrGeneral = <<>>
    /\ sdrReport = NULL
    /\ sdrError = NoError
    /\ composeLog = <<>>
    /\ sendLog = <<>>
    /\ newsApiKey \in BOOLEAN
    /\ openai = FALSE
    /\ now = [day |-> 10, tod |-> 1]
    /\ NewsIdle
    /\ NoCalls

NextNews ==
    \/ UpdStart
    \/ UpdRss
    \/ UpdApi
    \/ UpdScrape
    \/ UpdCleanup

SpecNews == InitNews /\ [][NextNews]_vars

\* ------------------------------------------------------ claims on updateNews
TierEntries(tier) == {k \in 1..Len(fetchLog) : fetchLog[k].tier = tier}

PriorAttempts == Len(rssSources) + IF newsApiKey THEN 1 ELSE 0

PastScrapeDecision == updPc \in {"scrape", "cleanup", "done"}

\* C4: a saveNews of a URL the store already holds leaves the store as it
\* was (row count and every field of every row), enriches nothing and raises
\* nothing, whatever the store, the site and the AI answer.
C4_SaveNewsIdempotentByUrl ==
    \A k \in 1..Len(lastFetch.saves) :
        lastFetch.saves[k].existed =>
            /\ ~lastFetch.saves[k].changed
            /\ ~lastFetch.saves[k].enriched
            /\ ~lastFetch.saves[k].raised

\* The same URL saved twice in a sequence: an earlier save of the run
\* inserted the row that a save of the last fetch found.
C4_Witness ==
    \E k \in 1..Len(lastFetch.saves) :
        /\ lastFetch.saves[k].existed
        /\ lastFetch.saves[k].getOk
        /\ \E i \in 1..Len(news) :
             /\ news[i].url = lastFetch.saves[k].url
             /\ news[i].created_at = now

\* C5: a scrape source is fetched only after every RSS source and, a key
\* being set, the API tier have been attempted and all of them failed; and
\* when all RSS sources failed and no key is set, the scrape tier is
\* attempted.
C5_ScrapeOnlyWhenNothingSucceeded ==
    /\ \A k \in TierEntries("scrape") :
         /\ k > PriorAttempts
         /\ \A j \in 1..PriorAttempts : ~fetchLog[j].ok
         /\ Cardinality(TierEntries("rss")) = Len(rssSources)
         /\ Cardinality(TierEntries("api")) = IF newsApiKey THEN 1 ELSE 0
    /\ updPc = "scrape" => successCount = 0 \/ updIdx > 1
    /\ (/\ updPc \in {"cleanup", "done"}
        /\ ~newsApiKey
        /\ \A k \in TierEntries("rss") : ~fetchLog[k].ok)
         => Cardinality(TierEntries("scrape")) = Len(newsSources)

\* Every RSS source failed, no key is set, and the scrape tier ran.
C5_Witness ==
    /\ updPc = "done"
    /\ ~newsApiKey
    /\ \A k \in TierEntries("rss") : ~fetchLog[k].ok
    /\ Cardinality(TierEntries("scrape")) = Len(newsSources)

\* C6: no outcome of the sources or of the store reads makes updateNews
\* raise: a run that has not returned can always take its next step, and a
\* run that has returned has run the cleanup once, after its last fetch.
C6_UpdateNewsNeverRaises ==
    /\ updPc # "raised"
    /\ updPc # "done" => ENABLED NextNews
    /\ updPc = "done" =>
         /\ Len(cleanups) = 1
         /\ cleanups[1].after = Len(fetchLog)
         /\ Len(fetchLog) >= PriorAttempts

\* A run in which the portfolio read and every source of the three tiers
\* failed, and which returned after the cleanup.
C6_Witness ==
    /\ updPc = "done"
    /\ successCount = 0
    /\ portfolio_stocks # <<>> /\ updPortfolio = <<>>
    /\ Len(fetchLog) = PriorAttempts + Len(newsSources)
    /\ \A k \in 1..Len(fetchLog) : ~fetchLog[k].ok
    /\ Len(cleanups) = 1

SourceFetchSubkinds == {"timeout", "blocked", "rate_limited", "not_found", "malformed"}

\* C9: whatever a fetcher raises for a failed source fetch is a
\* SourceFetchError carrying one of the five subkinds.
C9_FetchersRaiseSourceFetchError ==
    lastFetch.raised =>
        /\ lastFetch.error.name = "SourceFetchError"
        /\ lastFetch.error.code \in SourceFetchSubkinds

FailedSaves ==
    {k \in 1..Len(lastFetch.saves) :
        \/ ~lastFetch.saves[k].getOk
        \/ lastFetch.saves[k].enriched /\ ~lastFetch.saves[k].changed}

\* C11: no saveNews call raises, whether its existence check or its insert
\* is rejected; every article of the source is passed to saveNews, the ones
\* after a failed save included, and the fetch counts as a success of the
\* run, which does not raise.
C11_SaveNewsNeverRaises ==
    /\ \A k \in 1..Len(lastFetch.saves) : ~lastFetch.saves[k].raised
    /\ Len(lastFetch.saves) = lastFetch.planned
    /\ FailedSaves # {} =>
         /\ ~lastFetch.raised
         /\ fetchLog[Len(fetchLog)].ok
         /\ updPc # "raised"

\* The first article of a source failed to save (existence check or insert
\* rejected), the second was saved, and the run went on to its end.
C11_Witness ==
    /\ Len(lastFetch.saves) = 2
    /\ 1 \in FailedSaves
    /\ lastFetch.saves[2].changed
    /\ updPc = "done"

\* ------------------------------------------------------------ SpecSave
\* saveNews called directly, one article at a time, with every outcome of
\* the article's site and of the AI backend.
MaxSaves == 1

RECURSIVE Repeat(_, _)
Repeat(str, n) == IF n = 0 THEN "" ELSE str \o Repeat(str, n - 1)

\* A page whose paragraphs are longer than the summary limit.
LongPage == [ok |-> TRUE, text |-> Repeat("Apple gains again. ", 12)]

Pages == {SamplePage, LongPage, [ok |-> TRUE, text |-> ""],
          [ok |-> FALSE, text |-> ""]}

AiSummaries == {NoAiOut, [ok |-> TRUE, text |-> " Apple gains "]}

AiSentiments ==
    {NoAiOut} \cup
    {[ok |-> TRUE, text |-> t] :
        t \in {"0.5", "-0.3", " 1 ", "-1", "5", "-3.2", "neutral",
               "0.8 positive", ""}}

SaveArticles ==
    {[title |-> AppleUp.title, url |-> AppleUp.link, source |-> "BBC Business"],
     [title |-> FedCut.title, url |-> FedCut.link, source |-> "News API"]}

EnrichEnvs ==
    SaveEnvs \cup
    [getOk : {TRUE}, page : Pages, aiSummary : AiSummaries,
     aiSentiment : AiSentiments, insertOk : {TRUE}]

UrlExists(store, url) == \E i \in 1..Len(store) : store[i].url = url

\* One call of saveNews(article, portfolio, industries).
SaveNewsCall ==
    /\ callCount < MaxSaves
    /\ \E article \in SaveArticles, env \in EnrichEnvs :
         LET portfolio == SymbolAndName(portfolio_stocks)
             r == saveNews(news, article, portfolio, industries_table, openai,
                           now, env)
         IN /\ news' = r.news
            /\ lastCall' =
                 [method |-> "saveNews", article |-> article, env |-> env,
                  existed |-> UrlExists(news, article.url),
                  enriched |-> r.enriched, inserted |-> r.inserted,
                  raised |-> r.raised,
                  row |-> NewsRow(article, portfolio, industries_table, openai,
                                  now, env)]
    /\ callCount' = callCount + 1
    /\ UNCHANGED <<email_subscriptions, portfolios, portfolio_public, portfolio_stocks,
                   portfolio_table, industries_table, email_logs, sdrVars,
                   newsVars, saveRuns>>

SdrIdle ==
    /\ transporter = FALSE
    /\ sdrPc = "idle"
    /\ sdrGroups = <<>>
    /\ sdrEmails = <<>>
    /\ sdrGeneral = <<>>
    /\ sdrReport = NULL
    /\ sdrError = NoError
    /\ composeLog = <<>>
    /\ sendLog = <<>>

\* Holdings with a second stock, of a short symbol.
NuStocks ==
    SampleStocks \o <<[portfolio_id |-> 1, symbol |-> "NU", name |-> "Nu Holdings"]>>

InitSave ==
    /\ email_subscriptions = <<>>
    /\ portfolios = PortfolioIds
    /\ portfolio_public = {}
    /\ portfolio_stocks = NuStocks
    /\ portfolio_table = <<>>
    /\ industries_table = SampleIndustries
    /\ news \in {<<>>, SampleNews}
    /\ email_logs = <<>>
    /\ newsApiKey = FALSE
    /\ openai \in BOOLEAN
    /\ now = [day |-> 10, tod |-> 1]
    /\ SdrIdle
    /\ NewsIdle
    /\ NoCalls

NextSave == SaveNewsCall

SpecSave == InitSave /\ [][NextSave]_vars

\* ------------------------------------------------------ claims on enrichment
Enriched == lastCall.method = "saveNews" /\ lastCall.enriched

\* content || article.title: the text saveNews passes to generateSummary.
SummaryInput ==
    IF lastCall.row.content \in {NULL, ""} THEN lastCall.article.title
    ELSE lastCall.row.content

AiSummaryGiven == openai /\ lastCall.env.aiSummary.ok

AiSentimentGiven == openai /\ lastCall.env.aiSentiment.ok

\* C12: in every saveNews call that reaches the enrichment, the content is
\* null when the article's site fails and text otherwise, the summary is a
\* string, namely the first 200 characters of its input and "..." when no AI
\* backend is set or the AI call fails, the sentiment is a number, and the
\* call raises nothing.
C12_EnrichmentNeverRaises ==
    Enriched =>
        /\ ~lastCall.raised
        /\ ~lastCall.env.page.ok <=> lastCall.row.content = NULL
        /\ Len(lastCall.row.summary) >= 0
        /\ ~AiSummaryGiven =>
             /\ lastCall.row.summary
                  = SubSeq(SummaryInput, 1, Min(Len(SummaryInput), SummaryLimit))
                      \o "..."
             /\ Len(lastCall.row.summary) <= SummaryLimit + 3
        /\ lastCall.row.sentiment \in Int

\* An AI backend is set, its summary call fails, and the article's page is
\* longer than 200 characters: the summary is the cut page.
C12_Witness ==
    /\ Enriched
    /\ openai
    /\ ~lastCall.env.aiSummary.ok
    /\ Len(SummaryInput) > SummaryLimit
    /\ Len(lastCall.row.summary) = SummaryLimit + 3

\* C13: the sentiment of every row of the news store is in [-1, 1]; the one
\* a saveNews call computes is 0 when no AI backend is set, when the AI call
\* fails and when the AI output does not start with a number, and otherwise
\* the number the output starts with, clamped to [-1, 1].
C13_SentimentClamped ==
    /\ \A i \in 1..Len(news) :
         news[i].sentiment \in (-SentimentUnit)..SentimentUnit
    /\ Enriched =>
         LET given == parseFloat(trim(lastCall.env.aiSentiment.text))
             stored == lastCall.row.sentiment
         IN /\ stored \in (-SentimentUnit)..SentimentUnit
            /\ (~AiSentimentGiven \/ given.nan) => stored = 0
            /\ (AiSentimentGiven /\ ~given.nan) =>
                 /\ given.value > SentimentUnit => stored = SentimentUnit
                 /\ given.value < -SentimentUnit => stored = -SentimentUnit
                 /\ given.value \in (-SentimentUnit)..SentimentUnit
                      => stored = given.value

\* The AI answered 5 and the row was stored with sentiment 1.
C13_Witness ==
    /\ Enriched
    /\ lastCall.inserted
    /\ AiSentimentGiven
    /\ lastCall.env.aiSentiment.text = "5"
    /\ news[Len(news)].sentiment = SentimentUnit

\* ------------------------------------------------------------ SpecClean
\* cleanOldNews called on a store whose rows were ingested at various times.
MaxRows == 2
MaxSweeps == 1

SweepTime == [day |-> 11, tod |-> 12]

IngestTimes == [day : {2, 3, 4, 5, 6, 11}, tod : {0, 12, 23}]

\* The row the store holds of an article ingested at t.
StoredRow(i, t) ==
    [url |-> "old.io/" \o Pad2(i), title |-> "Fed holds",
     content |-> NULL, summary |-> "Fed holds...",
     source |-> "CNN Business", category |-> "policy",
     symbols |-> <<>>, sentiment |-> 0, created_at |-> t]

CleanOldNewsCall ==
    /\ callCount < MaxSweeps
    /\ \E failed \in BOOLEAN :
         /\ news' = cleanOldNews(news, now, failed).news
         /\ lastCall' = [method |-> "cleanOldNews", before |-> news,
                         at |-> now, failed |-> failed]
    /\ callCount' = callCount + 1
    /\ UNCHANGED <<email_subscriptions, portfolios, portfolio_public, portfolio_stocks,
                   portfolio_table, industries_table, email_logs, sdrVars,
                   newsVars, saveRuns>>

InitClean ==
    /\ email_subscriptions = <<>>
    /\ portfolios = PortfolioIds
    /\ portfolio_public = {}
    /\ portfolio_stocks = SampleStocks
    /\ portfolio_table = <<>>
    /\ industries_table = <<>>
    /\ \E n \in 0..MaxRows : \E ts \in [1..n -> IngestTimes] :
         news = [i \in 1..n |-> StoredRow(i, ts[i])]
    /\ email_logs = <<>>
    /\ newsApiKey = FALSE
    /\ openai = FALSE
    /\ now = SweepTime
    /\ SdrIdle
    /\ NewsIdle
    /\ NoCalls

NextClean == CleanOldNewsCall

SpecClean == InitClean /\ [][NextClean]_vars

\* ------------------------------------------------------- claims on retention
\* The hours between the ingestion of a row and the instant at.
AgeHours(row, at) ==
    (at.day * 24 + at.tod)
        - (row.created_at.day * 24 + row.created_at.tod)

Swept == lastCall.method = "cleanOldNews" /\ ~lastCall.failed

\* C14: after a sweep whose DELETE the store executed, no row ingested 8 or
\* more days before the sweep is left in the news store, and every row
\* ingested 6 or fewer days before it is still there.
C14_RetentionWindow ==
    Swept =>
        \A i \in 1..Len(lastCall.before) :
            LET row == lastCall.before[i]
            IN /\ AgeHours(row, lastCall.at) >= 8 * 24
                    => row \notin Range(news)
               /\ AgeHours(row, lastCall.at) <= 6 * 24
                    => row \in Range(news)

\* A sweep of a store holding a row ingested exactly 8 days before and one
\* ingested exactly 6 days before: the second alone is left.
C14_Witness ==
    /\ Swept
    /\ Len(lastCall.before) = 2
    /\ AgeHours(lastCall.before[1], lastCall.at) = 8 * 24
    /\ AgeHours(lastCall.before[2], lastCall.at) = 6 * 24
    /\ news = <<lastCall.before[2]>>

\* ------------------------------------------------------------ SpecReport
\* generatePortfolioReport and generateGeneralReport called directly on
\* stores of various sizes.
MaxReports == 1

ReportTime == [day |-> 12, tod |-> 12]

StoreSizes == {0, 4, 23}

RowCategories == <<"market", "360", "", "earnings">>
RowSymbols == <<<<"AAPL">>, <<>>, <<"MSFT">>>>
RowSentiments == <<50, -30, 0, 100, -100>>

\* The i-th row of the store, two rows being ingested a day.
ReportRow(i) ==
    [url |-> "r.io/" \o Pad2(i), title |-> "Fed holds",
     content |-> NULL, summary |-> "Fed holds...",
     source |-> "CNN Business",
     category |-> RowCategories[(i % Len(RowCategories)) + 1],
     symbols |-> RowSymbols[(i % Len(RowSymbols)) + 1],
     sentiment |-> RowSentiments[(i % Len(RowSentiments)) + 1],
     created_at |-> [day |-> 1 + (i \div 2), tod |-> (i % 2) * 12]]

TwoStocks ==
    <<[portfolio_id |-> 1, symbol |-> "AAPL", name |-> "Apple"],
      [portfolio_id |-> 1, symbol |-> "MSFT", name |-> "Microsoft"]>>

ReportPortfolios == 1..7

\* An id no row of portfolios has.
MissingPortfolio == 9

TargetDates == {NoDate, 6, 12}

ReportUnchanged ==
    UNCHANGED <<storeVars, sdrVars, newsVars, saveRuns>>

GeneratePortfolioReportCall ==
    /\ callCount < MaxReports
    /\ \E pid \in {1, 2, MissingPortfolio}, targetDate \in TargetDates,
          faults \in SUBSET {"portfolio", "stocks", "news", "metrics",
                             "metricsMonthly", "metricsSentiment"} :
         LET r == generatePortfolioReport(pid, targetDate, faults)
         IN lastCall' = [method |-> "generatePortfolioReport", pid |-> pid,
                         targetDate |-> targetDate,
                         failed |-> faults \cap Range(r.reads), result |-> r]
    /\ callCount' = callCount + 1
    /\ ReportUnchanged

GenerateGeneralReportCall ==
    /\ callCount < MaxReports
    /\ \E faults \in SUBSET {"news", "public"} :
         LET r == generateGeneralReport(faults)
         IN lastCall' = [method |-> "generateGeneralReport",
                         failed |-> faults \cap Range(r.reads), result |-> r]
    /\ callCount' = callCount + 1
    /\ ReportUnchanged

InitReport ==
    /\ email_subscriptions = <<>>
    /\ portfolios = ReportPortfolios
    /\ portfolio_public \in {{}, {2}, ReportPortfolios \ {1}}
    /\ portfolio_stocks \in {SampleStocks, TwoStocks}
    /\ portfolio_table = <<>>
    /\ industries_table = <<>>
    /\ \E n \in StoreSizes : news = [i \in 1..n |-> ReportRow(i)]
    /\ email_logs = <<>>
    /\ newsApiKey = FALSE
    /\ openai = FALSE
    /\ now = ReportTime
    /\ SdrIdle
    /\ NewsIdle
    /\ NoCalls

NextReport ==
    \/ GeneratePortfolioReportCall
    \/ GenerateGeneralReportCall

SpecReport == InitReport /\ [][NextReport]_vars

\* ---------------------------------------------------------- claims on reports
PortfolioReported ==
    lastCall.method = "generatePortfolioReport" /\ lastCall.result.ok

Holdings(pid) == {StocksOf(pid)[i].symbol : i \in 1..Len(StocksOf(pid))}

\* C15: for an existing portfolio without holdings, and whatever the target
\* date, the call returns the empty variant (isEmpty, no news, sentiment 0)
\* and reads the portfolio and its stocks only, never the news store.
C15_EmptyPortfolioReport ==
    (/\ lastCall.method = "generatePortfolioReport"
     /\ lastCall.pid \in portfolios
     /\ StocksOf(lastCall.pid) = <<>>
     /\ lastCall.failed = {})
      => /\ lastCall.result.ok
         /\ lastCall.result.report.isEmpty
         /\ lastCall.result.report.totalNews = 0
         /\ lastCall.result.report.portfolioNews = <<>>
         /\ lastCall.result.report.newsByCategory = <<>>
         /\ lastCall.result.report.marketSentiment = 0
         /\ lastCall.result.reads = <<"portfolio", "stocks">>

\* A report of the portfolio without holdings, for a target date, over a
\* store that holds news.
C15_Witness ==
    /\ PortfolioReported
    /\ lastCall.pid = 2
    /\ lastCall.targetDate # NoDate
    /\ news # <<>>
    /\ lastCall.result.report.isEmpty

ComposedFromNews == PortfolioReported /\ ~lastCall.result.report.isEmpty

\* The rows of the store ingested on the calendar day d.
IngestedOn(d) == {news[i] : i \in {k \in 1..Len(news) : news[k].created_at.day = d}}

\* C16: with a target date the candidate articles are exactly the stored
\* articles ingested on that calendar day; without one they are the 20 most
\* recently ingested articles, the latest first.
C16_TargetDateCandidates ==
    (ComposedFromNews /\ lastCall.failed = {}) =>
        LET recentNews == lastCall.result.recentNews
        IN IF lastCall.targetDate # NoDate
           THEN Range(recentNews) = IngestedOn(lastCall.targetDate)
           ELSE /\ Len(recentNews) = Min(Len(news), RecentLimitPortfolio)
                /\ \A k \in 1..Len(recentNews) :
                     recentNews[k] = news[Len(news) - k + 1]

\* The categories of the groups of a newsByCategory, in its order.
RECURSIVE GroupCategories(_)
GroupCategories(groups) ==
    IF groups = <<>> THEN <<>>
    ELSE <<Head(groups).category>> \o GroupCategories(Tail(groups))

\* groups partitions rows by category: the groups have distinct categories,
\* none is empty, and each holds the rows of its category, a missing
\* category counting as 'general', in the order of rows.
PartitionsByCategory(groups, rows) ==
    /\ \A i, j \in 1..Len(groups) : groups[i].category = groups[j].category => i = j
    /\ \A i \in 1..Len(groups) :
         /\ groups[i].news # <<>>
         /\ groups[i].news
              = SelectSeq(rows, LAMBDA row :
                    (IF row.category \in {NULL, ""} THEN "general" ELSE row.category)
                        = groups[i].category)
    /\ \A k \in 1..Len(rows) :
         \E i \in 1..Len(groups) : rows[k] \in Range(groups[i].news)

\* The categories of rows, each at its first occurrence.
RECURSIVE FirstSeenCategories(_, _)
FirstSeenCategories(rows, seen) ==
    IF rows = <<>> THEN <<>>
    ELSE LET c == IF Head(rows).category \in {NULL, ""} THEN "general"
                  ELSE Head(rows).category
         IN IF c \in seen THEN FirstSeenCategories(Tail(rows), seen)
            ELSE <<c>> \o FirstSeenCategories(Tail(rows), seen \cup {c})

\* C17: in every non-empty portfolio report, portfolioNews holds exactly the
\* candidates whose symbols share a symbol with the holdings, totalNews is
\* its length, newsByCategory partitions it by category with the categories
\* in first-seen order, and marketSentiment is 0 when it is empty.
C17_PortfolioReportFields ==
    ComposedFromNews =>
        LET report == lastCall.result.report
            expected == SelectSeq(lastCall.result.recentNews,
                            LAMBDA n : Range(n.symbols) \cap Holdings(lastCall.pid) # {})
        IN /\ report.portfolioNews = expected
           /\ report.totalNews = Len(report.portfolioNews)
           /\ PartitionsByCategory(report.newsByCategory, report.portfolioNews)
           /\ GroupCategories(report.newsByCategory)
                = FirstSeenCategories(report.portfolioNews, {})
           /\ report.portfolioNews = <<>> => report.marketSentiment = 0

MetricReads == {"metrics", "metricsMonthly", "metricsSentiment"}

\* C18: a failure of the metrics queries never fails the portfolio report,
\* and each metric defaults to 0 on its own: the 7-day count, the 30-day
\* count and the 7-day average sentiment are 0 when their own query failed
\* and the computed value otherwise.
C18_MetricsDefaultIndependently ==
    (/\ lastCall.method = "generatePortfolioReport"
     /\ lastCall.pid \in portfolios
     /\ StocksOf(lastCall.pid) # <<>>
     /\ lastCall.failed \subseteq MetricReads)
      => /\ lastCall.result.ok
         /\ LET computed ==
                    calculatePortfolioMetrics(lastCall.pid,
                        ReportDate(lastCall.targetDate), {}).metrics
                metrics == lastCall.result.report.metrics
            IN /\ metrics.weeklyNewsCount
                    = IF "metrics" \in lastCall.failed THEN 0
                      ELSE computed.weeklyNewsCount
               /\ metrics.monthlyNewsCount
                    = IF "metricsMonthly" \in lastCall.failed THEN 0
                      ELSE computed.monthlyNewsCount
               /\ metrics.avgSentiment
                    = IF "metricsSentiment" \in lastCall.failed THEN 0
                      ELSE computed.avgSentiment

GeneralReported ==
    /\ lastCall.method = "generateGeneralReport"
    /\ lastCall.result.ok
    /\ lastCall.failed = {}

\* C19: the general report is built from the 10 most recently ingested
\* articles, none being left out for the holdings: totalNews is their number,
\* newsByCategory partitions all of them, portfolioNews is empty, and the
\* portfolios listed are at most 5, all public.
C19_GeneralReportFields ==
    GeneralReported =>
        LET report == lastCall.result.report
            latest == [k \in 1..Min(Len(news), RecentLimitGeneral) |->
                          news[Len(news) - k + 1]]
        IN /\ lastCall.result.recentNews = latest
           /\ report.totalNews = Len(latest)
           /\ report.totalNews <= RecentLimitGeneral
           /\ PartitionsByCategory(report.newsByCategory, latest)
           /\ report.portfolioNews = <<>>
           /\ Len(report.publicPortfolios) <= PublicLimit
           /\ Range(report.publicPortfolios) \subseteq portfolio_public
           /\ Len(report.publicPortfolios)
                = Min(Cardinality(portfolio_public), PublicLimit)

\* A general report over a store of more than 10 articles, some naming no
\* held symbol, with more than 5 public portfolios.
C19_Witness ==
    /\ GeneralReported
    /\ Len(news) > RecentLimitGeneral
    /\ Cardinality(portfolio_public) > PublicLimit
    /\ lastCall.result.report.totalNews = RecentLimitGeneral
    /\ Len(lastCall.result.report.publicPortfolios) = PublicLimit
    /\ \E k \in 1..Len(lastCall.result.recentNews) :
         lastCall.result.recentNews[k].symbols = <<>>

\* ---------------------------------------------------------- SpecRelevance
\* isRelevantNews called directly, several times in a row; lastCall.calls is
\* the set of the calls made so far, each with its arguments and its answer.
MaxCalls == 2

RelevanceTitles ==
    {"Apple Inc reports record earnings", "Local bakery wins award",
     "APPLE INC SOARS", "aapl dips", "New Chip plant", "Tech rally",
     "Nasdaq falls", "Quiet day"}

RelevanceHoldings == {<<>>, <<[symbol |-> "AAPL", name |-> "Apple Inc"]>>}

RelevanceIndustries ==
    {<<>>,
     <<[name |-> "Tech", keywords |-> "chip, ai"]>>,
     <<[name |-> "Energy", keywords |-> NULL]>>,
     <<[name |-> "Retail", keywords |-> "shop,"]>>}

IsRelevantNewsCall ==
    /\ callCount < MaxCalls
    /\ \E title \in RelevanceTitles, portfolio \in RelevanceHoldings,
          industries \in RelevanceIndustries :
         lastCall' =
           [method |-> "isRelevantNews",
            calls |-> (IF lastCall.method = "isRelevantNews"
                       THEN lastCall.calls ELSE {})
                      \cup {[title |-> title, portfolio |-> portfolio,
                             industries |-> industries,
                             result |-> isRelevantNews(title, portfolio,
                                                       industries)]}]
    /\ callCount' = callCount + 1
    /\ UNCHANGED <<storeVars, sdrVars, newsVars, saveRuns>>

InitRelevance ==
    /\ email_subscriptions = <<>>
    /\ portfolios = PortfolioIds
    /\ portfolio_public = {}
    /\ portfolio_stocks = <<>>
    /\ portfolio_table = <<>>
    /\ industries_table = <<>>
    /\ news = <<>>
    /\ email_logs = <<>>
    /\ newsApiKey = FALSE
    /\ openai = FALSE
    /\ now = [day |-> 10, tod |-> 1]
    /\ SdrIdle
    /\ NewsIdle
    /\ NoCalls

NextRelevance == IsRelevantNewsCall

SpecRelevance == InitRelevance /\ [][NextRelevance]_vars

\* --------------------------------------------------------- claims on relevance
RelevanceCalls ==
    IF lastCall.method = "isRelevantNews" THEN lastCall.calls ELSE {}

\* The same letter, whatever its case.
SameLetter(a, b) ==
    \/ a = b
    \/ a \in DOMAIN LowerCaseOf /\ LowerCaseOf[a] = b
    \/ b \in DOMAIN LowerCaseOf /\ LowerCaseOf[b] = a

\* The title contains the term, case-insensitively.
Contains(title, term) ==
    \E i \in 1..(Len(title) - Len(term) + 1) :
        \A j \in 1..Len(term) :
            SameLetter(SubSeq(title, i + j - 1, i + j - 1), SubSeq(term, j, j))

\* The comma-separated keywords of an industry, without the white space
\* around them.
KeywordsOf(industry) ==
    IF industry.keywords \in {NULL, ""} THEN {}
    ELSE {trim(k) : k \in Range(splitComma(industry.keywords))}

GenericTerms ==
    {"stock", "market", "earnings", "revenue", "profit", "loss", "shares",
     "dividend", "investment", "trading", "nasdaq", "dow", "s&p", "fed",
     "interest rate", "inflation", "gdp"}

\* C20: isRelevantNews gives the same answer to the same arguments, and the
\* answer is true exactly when the title contains, case-insensitively, the
\* symbol or the name of a holding, the name or a keyword of an industry, or
\* a generic financial term.
C20_IsRelevantNews ==
    /\ \A c1, c2 \in RelevanceCalls :
         (/\ c1.title = c2.title
          /\ c1.portfolio = c2.portfolio
          /\ c1.industries = c2.industries)
           => c1.result = c2.result
    /\ \A c \in RelevanceCalls :
         c.result <=>
              \/ \E h \in Range(c.portfolio) :
                   Contains(c.title, h.symbol) \/ Contains(c.title, h.name)
              \/ \E d \in Range(c.industries) :
                   \/ Contains(c.title, d.name)
                   \/ \E k \in KeywordsOf(d) : Contains(c.title, k)
              \/ \E t \in GenericTerms : Contains(c.title, t)

\* A title naming a holding in another case was found relevant, and a title
\* without any term, with no holdings and no industries, was not.
C20_Witness ==
    /\ \E c \in RelevanceCalls :
         /\ c.title = "APPLE INC SOARS"
         /\ c.portfolio = <<[symbol |-> "AAPL", name |-> "Apple Inc"]>>
         /\ c.industries = <<>>
         /\ c.result
    /\ \E c \in RelevanceCalls :
         /\ c.title = "Local bakery wins award"
         /\ c.portfolio = <<>>
         /\ c.industries = <<>>
         /\ ~c.result

\* ---------------------------------------------------------- SpecCategory
\* categorizeNews called directly, several times in a row; lastCall.calls is
\* the set of the calls made so far.
CategoryTitles ==
    {"Tech earnings beat", "TECH and energy firms", "Profit up as GDP grows",
     "Dow index falls on Fed policy", "Fed policy unchanged", "Inflation cools",
     "Energy Regulation", "Quiet day"}

TechIndustry == [name |-> "Tech", keywords |-> "chip, ai"]
EnergyIndustry == [name |-> "Energy", keywords |-> NULL]

CategoryIndustries ==
    {<<>>, <<TechIndustry>>, <<TechIndustry, EnergyIndustry>>,
     <<EnergyIndustry, TechIndustry>>}

CategorizeNewsCall ==
    /\ callCount < MaxCalls
    /\ \E title \in CategoryTitles, industries \in CategoryIndustries :
         lastCall' =
           [method |-> "categorizeNews",
            calls |-> (IF lastCall.method = "categorizeNews"
                       THEN lastCall.calls ELSE {})
                      \cup {[title |-> title, industries |-> industries,
                             result |-> categorizeNews(title, industries)]}]
    /\ callCount' = callCount + 1
    /\ UNCHANGED <<storeVars, sdrVars, newsVars, saveRuns>>

NextCategory == CategorizeNewsCall

SpecCategory == InitRelevance /\ [][NextCategory]_vars

\* ------------------------------------------------------ claims on categories
CategoryCalls ==
    IF lastCall.method = "categorizeNews" THEN lastCall.calls ELSE {}

\* The keyword table, in its order.
TableOrder == <<"earnings", "market", "policy", "economy">>

TableTerms(category) ==
    CASE category = "earnings" -> {"earnings", "revenue", "profit", "loss"}
      [] category = "market" ->
           {"market", "trading", "index", "dow", "nasdaq", "s&p"}
      [] category = "policy" -> {"fed", "interest rate", "policy", "regulation"}
      [] OTHER -> {"gdp", "inflation", "employment", "economic"}

Named(c) == {i \in 1..Len(c.industries) : Contains(c.title, c.industries[i].name)}

Tabled(c) ==
    {k \in 1..Len(TableOrder) : \E t \in TableTerms(TableOrder[k]) : Contains(c.title, t)}

\* C21: categorizeNews answers the name of the first watched industry whose
\* name occurs in the title, whatever table keywords the title holds;
\* without one, the first of earnings, market, policy, economy with a keyword
\* in the title; without one, general.  The answer is an industry name or
\* one of the five categories.
C21_CategorizeNews ==
    \A c \in CategoryCalls :
        /\ Named(c) # {} =>
             \E i \in Named(c) : /\ \A j \in Named(c) : i <= j
                                 /\ c.result = c.industries[i].name
        /\ (Named(c) = {} /\ Tabled(c) # {}) =>
             \E k \in Tabled(c) : /\ \A l \in Tabled(c) : k <= l
                                  /\ c.result = TableOrder[k]
        /\ (Named(c) = {} /\ Tabled(c) = {}) => c.result = "general"
        /\ c.result \in {d.name : d \in Range(c.industries)}
                          \cup Range(TableOrder) \cup {"general"}

\* A title with an industry name and a table keyword got the industry, and
\* a title with keywords of two table categories got the earlier one.
C21_Witness ==
    /\ \E c \in CategoryCalls :
         /\ c.title = "Tech earnings beat"
         /\ c.industries = <<EnergyIndustry, TechIndustry>>
         /\ c.result = "Tech"
    /\ \E c \in CategoryCalls :
         /\ c.title = "Dow index falls on Fed policy"
         /\ c.industries = <<>>
         /\ c.result = "market"

\* ------------------------------------------------- claims on sendDailyReport
\* C22: no step of sendDailyReport, whether it composes a report (with its
\* metrics) or fails to, or sends one, changes the news, portfolio, holdings,
\* industry or subscription stores; composing leaves the email log as it is
\* and sending only appends rows to it.
C22_CompositionReadOnly ==
    [][/\ news' = news
       /\ portfolios' = portfolios
       /\ portfolio_public' = portfolio_public
       /\ portfolio_stocks' = portfolio_stocks
       /\ portfolio_table' = portfolio_table
       /\ industries_table' = industries_table
       /\ email_subscriptions' = email_subscriptions
       /\ Len(email_logs') >= Len(email_logs)
       /\ SubSeq(email_logs', 1, Len(email_logs)) = email_logs
       /\ composeLog' # composeLog => email_logs' = email_logs]_vars

\* A run that composed a portfolio report and sent it, then failed to compose
\* the general report, over a store holding news.
C22_Witness ==
    /\ news # <<>>
    /\ email_logs # <<>>
    /\ \E k \in 1..Len(composeLog) : composeLog[k].kind = "portfolio" /\ composeLog[k].ok
    /\ \E k \in 1..Len(composeLog) : composeLog[k].kind = "general" /\ ~composeLog[k].ok

\* ------------------------------------------------------ claims on updateNews
TierRank(tier) == CASE tier = "rss" -> 1 [] tier = "api" -> 2 [] OTHER -> 3

\* C23: the attempts of a run follow one another in the order RSS sources
\* (each one, in the order of the registry), API, scrape sources (in the
\* order of their registry), and the cleanup runs once, after the last
\* attempt, in every run that returns; no run ends otherwise.
C23_TiersInOrderThenCleanup ==
    /\ \A j, k \in 1..Len(fetchLog) :
         j < k => TierRank(fetchLog[j].tier) <= TierRank(fetchLog[k].tier)
    /\ \A k \in 1..Len(fetchLog) :
         /\ fetchLog[k].tier = "rss" => fetchLog[k].source = rssSources[k]
         /\ fetchLog[k].tier = "scrape" =>
              fetchLog[k].source = newsSources[k - PriorAttempts]
    /\ (TierEntries("api") \cup TierEntries("scrape")) # {} =>
         TierEntries("rss") = 1..Len(rssSources)
    /\ (newsApiKey /\ TierEntries("scrape") # {}) =>
         Cardinality(TierEntries("api")) = 1
    /\ Len(cleanups) <= 1
    /\ Len(cleanups) = 1 <=> updPc = "done"
    /\ Len(cleanups) = 1 => cleanups[1].after = Len(fetchLog)
    /\ updPc \in {"cleanup", "done"} => Len(fetchLog) >= PriorAttempts
    /\ updPc # "raised"

\* A run with a key in which the three tiers were attempted, a scrape source
\* succeeded, and the cleanup ran.
C23_Witness ==
    /\ updPc = "done"
    /\ newsApiKey
    /\ Len(fetchLog) = PriorAttempts + Len(newsSources)
    /\ \E k \in TierEntries("scrape") : fetchLog[k].ok
    /\ Len(cleanups) = 1

\* C24: no source is attempted twice in a run; the success counter is the
\* number of attempts that ended without an error, an attempt that gave no
\* article to save included; and the scrape tier is not entered once an RSS
\* or API attempt has ended without an error.
C24_SuccessCountsFetches ==
    /\ \A j, k \in 1..Len(fetchLog) :
         (fetchLog[j].tier = fetchLog[k].tier /\ fetchLog[j].source = fetchLog[k].source)
           => j = k
    /\ updPc # "idle" =>
         successCount = Cardinality({k \in 1..Len(fetchLog) : fetchLog[k].ok})
    /\ fetchLog # <<>> => fetchLog[Len(fetchLog)].ok = ~lastFetch.raised
    /\ (\E k \in TierEntries("rss") \cup TierEntries("api") : fetchLog[k].ok) =>
         /\ TierEntries("scrape") = {}
         /\ updPc # "scrape"

\* Without a key, the last RSS source returned a feed without any relevant
\* article, every other source failed, and the run goes to the cleanup.
C24_Witness ==
    /\ ~newsApiKey
    /\ updPc = "cleanup"
    /\ Len(fetchLog) = Len(rssSources)
    /\ ~lastFetch.raised
    /\ lastFetch.planned = 0
    /\ \A k \in 1..(Len(fetchLog) - 1) : ~fetchLog[k].ok
    /\ successCount = 1

\* ------------------------------------------------- claims on sendDailyReport
SendsTo(email, pid) ==
    Cardinality({j \in 1..Len(sendLog) :
        sendLog[j].recipient = email /\ sendLog[j].portfolio = pid})

RowsOf(email, pid, active) ==
    Cardinality({i \in 1..Len(email_subscriptions) :
        /\ email_subscriptions[i].email = email
        /\ email_subscriptions[i].portfolio_id = pid
        /\ email_subscriptions[i].is_active = active})

MaxRuns == 2

AppleArticle ==
    [title |-> AppleUp.title, url |-> AppleUp.link, source |-> "BBC Business"]

FedArticle ==
    [title |-> FedCut.title, url |-> FedCut.link, source |-> "News API"]

RaceTodos == {<<FedArticle>>, <<AppleArticle, FedArticle>>,
              <<FedArticle, AppleArticle>>}

\* The run p after its saveNews call ended with `outcome`.
RaceNext(p, outcome) ==
    [saveRuns EXCEPT ![p] =
        [pc |-> IF Tail(@.todo) = <<>> THEN "returned" ELSE "existing",
         todo |-> Tail(@.todo),
         log |-> Append(@.log, outcome)]]

\* The existence query of the saveNews call of run p.
RaceExisting(p) ==
    /\ saveRuns[p].pc = "existing"
    /\ \E getOk \in BOOLEAN :
         LET next == saveNewsExisting(news, Head(saveRuns[p].todo), getOk)
         IN saveRuns' = IF next = "enrich"
                        THEN [saveRuns EXCEPT ![p].pc = "insert"]
                        ELSE RaceNext(p, next)
    /\ UNCHANGED <<storeVars, sdrVars, newsVars, lastCall, callCount>>

\* The enrichment and the INSERT of the saveNews call of run p.
RaceInsert(p) ==
    /\ saveRuns[p].pc = "insert"
    /\ \E env \in {e \in SaveEnvs : e.getOk} :
         LET row == NewsRow(Head(saveRuns[p].todo), SymbolAndName(portfolio_stocks),
                            industries_table, openai, now, env)
             r == saveNewsInsert(news, row, env.insertOk)
         IN /\ news' = r.news
            /\ saveRuns' = RaceNext(p,
                  IF ~r.caught THEN "saved"
                  ELSE IF \E i \in 1..Len(news) : news[i].url = row.url
                       THEN "lost" ELSE "caught")
    /\ UNCHANGED <<email_subscriptions, portfolios, portfolio_public,
                   portfolio_stocks, portfolio_table, industries_table,
                   email_logs, sdrVars, newsVars, lastCall, callCount>>

InitRace ==
    /\ email_subscriptions = <<>>
    /\ portfolios = PortfolioIds
    /\ portfolio_public = {}
    /\ portfolio_stocks = SampleStocks
    /\ portfolio_table = <<>>
    /\ industries_table = SampleIndustries
    /\ news \in {<<>>, SampleNews}
    /\ email_logs = <<>>
    /\ newsApiKey = FALSE
    /\ openai = FALSE
    /\ now = [day |-> 10, tod |-> 1]
    /\ SdrIdle
    /\ NewsIdle
    /\ lastCall = [method |-> "none"]
    /\ callCount = 0
    /\ saveRuns \in [1..MaxRuns ->
                       {[pc |-> "existing", todo |-> t, log |-> <<>>] :
                           t \in RaceTodos}]

NextRace == \E p \in 1..MaxRuns : RaceExisting(p) \/ RaceInsert(p)

SpecRace == InitRace /\ [][NextRace]_vars

\* ------------------------------------------------------ claims on the race
\* C26: whatever the interleaving of the saveNews calls of overlapping runs,
\* the news store never holds two rows of one URL, and a run whose INSERT is
\* rejected because another run inserted the URL first goes on: it has
\* returned, or it is at a store call of its next article.
C26_OneRowPerUrl ==
    /\ \A i, j \in 1..Len(news) : news[i].url = news[j].url => i = j
    /\ \A p \in 1..Len(saveRuns) :
         /\ saveRuns[p].pc \in {"existing", "insert", "returned"}
         /\ saveRuns[p].pc = "returned" <=> saveRuns[p].todo = <<>>

\* Two runs raced for one URL: one saved it, the other lost the race on the
\* INSERT and then saved its next article.
C26_Witness ==
    /\ \A i, j \in 1..Len(news) : news[i].url = news[j].url => i = j
    /\ \E p, q \in 1..Len(saveRuns) :
         /\ saveRuns[p].log = <<"lost", "saved">>
         /\ saveRuns[p].pc = "returned"
         /\ saveRuns[q].log # <<>>
         /\ Head(saveRuns[q].log) = "saved"

\* ------------------------------------------------------- claims on retention
\* C27: after a sweep whose DELETE the store executed, every row ingested
\* less than seven days before the sweep is still in the news store, a row
\* ingested on the cutoff day at a later time of day than the cutoff
\* included.
C27_SweepKeepsLastSevenDays ==
    Swept =>
        \A i \in 1..Len(lastCall.before) :
            AgeHours(lastCall.before[i], lastCall.at) < RetentionDays * 24
                => lastCall.before[i] \in Range(news)

\* ---------------------------------------------------------- SpecFilter
\* One item given to the three fetchers, each with the same holdings and
\* industries; lastCall.calls is the set of the items tried so far, each
\* with what the filter of each tier decided.
Kept(r) == ~r.raised /\ r.articles # <<>>

TierFilterCall ==
    /\ callCount < MaxCalls
    /\ \E title \in RelevanceTitles \cup {NewCeo.title},
          portfolio \in RelevanceHoldings, industries \in RelevanceIndustries :
         LET answer == [ok |-> TRUE,
                        items |-> <<[title |-> title, link |-> NewCeo.link]>>]
         IN lastCall' =
              [method |-> "filter",
               calls |-> (IF lastCall.method = "filter" THEN lastCall.calls ELSE {})
                 \cup {[title |-> title, portfolio |-> portfolio,
                        industries |-> industries,
                        rss |-> Kept(scrapeRSSSource(rssSources[1], portfolio,
                                                     industries, answer)),
                        api |-> Kept(fetchNewsFromAPI(portfolio, industries,
                                                      answer)),
                        scrape |-> Kept(scrapeNewsSource(newsSources[1], portfolio,
                                                         industries, answer))]}]
    /\ callCount' = callCount + 1
    /\ UNCHANGED <<storeVars, sdrVars, newsVars, saveRuns>>

NextFilter == TierFilterCall

SpecFilter == InitRelevance /\ [][NextFilter]_vars

\* ------------------------------------------------- claims on the tier filters
\* C28: without holdings and without watched industries, a title is kept by
\* the filter of one tier exactly when it is kept by the filter of each of
\* the other two.
C28_SameDecisionInEveryTier ==
    lastCall.method = "filter" =>
        \A c \in lastCall.calls :
            (c.portfolio = <<>> /\ c.industries = <<>>)
              => (c.rss = c.api /\ c.api = c.scrape)

\* --------------------------------------------------------- claims on relevance
\* C29: an industry makes a title relevant only through its name or a keyword
\* that is not empty: a title holding no symbol or name of a holding, no
\* generic term, no industry name and no non-empty keyword is not relevant,
\* whatever empty segments the keywords strings have.
C29_EmptyKeywordMatchesNothing ==
    \A c \in RelevanceCalls :
        (/\ \A h \in Range(c.portfolio) :
              ~Contains(c.title, h.symbol) /\ ~Contains(c.title, h.name)
         /\ \A t \in GenericTerms : ~Contains(c.title, t)
         /\ \A d \in Range(c.industries) :
              /\ ~Contains(c.title, d.name)
              /\ \A k \in KeywordsOf(d) \ {""} : ~Contains(c.title, k))
          => ~c.result

\* ------------------------------------------------------ claims on enrichment
\* The holding's symbol or name occurs in the text, whatever the case.
Names(text, h) == Contains(text, h.symbol) \/ Contains(text, h.name)

\* C30: the symbols stored with an article are those of the holdings whose
\* symbol or name occurs in its title or in its extracted content, and in
\* its title alone when the extraction of the content failed.
C30_RelatedSymbols ==
    Enriched =>
        LET row == lastCall.row
            holdings == SymbolAndName(portfolio_stocks)
        IN Range(row.symbols) =
             {h.symbol : h \in {g \in Range(holdings) :
                 \/ Names(row.title, g)
                 \/ row.content # NULL /\ Names(row.content, g)}}

====
